---------------------------- MODULE Spec2Model ----------------------------
(***************************************************************************)
(* Ticker resolution of HedgeAI (backend/app/services/ticker_service.py): *)
(* TickerService.resolve_ticker with its exact, fuzzy, AI and passthrough *)
(* steps, the AI lookup provider as the environment, and the name         *)
(* dictionary COMPANY_TO_TICKER.                                           *)
(*                                                                         *)
(* A Python str is modelled as a sequence of code points (naturals): the  *)
(* comment beside each literal gives its text.  The inputs of the model   *)
(* are ASCII strings.                                                      *)
(***************************************************************************)
EXTENDS Integers, Sequences, FiniteSets

(***************************************************************************)
(* str methods used by the code, on ASCII.                                 *)
(***************************************************************************)

\* str.isspace() of one ASCII character: \t \n \v \f \r, \x1c..\x1f, space.
IsSpace(ch) == ch \in {9, 10, 11, 12, 13, 28, 29, 30, 31, 32}

\* str.lower() of one ASCII character.
LowerChar(ch) == IF ch \in 65..90 THEN ch + 32 ELSE ch

\* str.upper() of one ASCII character.
UpperChar(ch) == IF ch \in 97..122 THEN ch - 32 ELSE ch

\* s.lower()
Lower(s) == [i \in 1..Len(s) |-> LowerChar(s[i])]

\* s.upper()
Upper(s) == [i \in 1..Len(s) |-> UpperChar(s[i])]

\* s.strip(): s without its leading and trailing whitespace.
Strip(s) ==
    LET keep == {i \in 1..Len(s) : ~IsSpace(s[i])}
        first == CHOOSE i \in keep : \A j \in keep : i <= j
        last == CHOOSE i \in keep : \A j \in keep : j <= i
    IN  IF keep = {} THEN <<>> ELSE SubSeq(s, first, last)

\* s.title() on the aliases: a cased character is upper-cased when it
\* follows an uncased one (or starts the string) and lower-cased otherwise.
IsCased(ch) == ch \in 65..90 \/ ch \in 97..122

Title(s) ==
    [i \in 1..Len(s) |->
        IF i = 1 \/ ~IsCased(s[i - 1]) THEN UpperChar(s[i]) ELSE LowerChar(s[i])]

\* x < y for two str: lexicographic order by code point.
StrLess(x, y) ==
    LET n == IF Len(x) < Len(y) THEN Len(x) ELSE Len(y)
        diff == {i \in 1..n : x[i] # y[i]}
        d == CHOOSE i \in diff : \A j \in diff : i <= j
    IN  IF diff = {} THEN Len(x) < Len(y) ELSE x[d] < y[d]

(***************************************************************************)
(* The dict display of lines 13-185, item by item as written, as (alias,   *)
(* ticker) pairs.  It names "netflix" twice (lines 22 and 108).            *)
(***************************************************************************)
COMPANY_TO_TICKER_LITERAL ==
    <<
       << <<103, 111, 111, 103, 108, 101>>, <<71, 79, 79, 71, 76>> >>,  \* 15: "google": "GOOGL"
       << <<97, 108, 112, 104, 97, 98, 101, 116>>, <<71, 79, 79, 71, 76>> >>,  \* 16: "alphabet": "GOOGL"
       << <<97, 112, 112, 108, 101>>, <<65, 65, 80, 76>> >>,  \* 17: "apple": "AAPL"
       << <<109, 105, 99, 114, 111, 115, 111, 102, 116>>, <<77, 83, 70, 84>> >>,  \* 18: "microsoft": "MSFT"
       << <<97, 109, 97, 122, 111, 110>>, <<65, 77, 90, 78>> >>,  \* 19: "amazon": "AMZN"
       << <<109, 101, 116, 97>>, <<77, 69, 84, 65>> >>,  \* 20: "meta": "META"
       << <<102, 97, 99, 101, 98, 111, 111, 107>>, <<77, 69, 84, 65>> >>,  \* 21: "facebook": "META"
       << <<110, 101, 116, 102, 108, 105, 120>>, <<78, 70, 76, 88>> >>,  \* 22: "netflix": "NFLX"
       << <<110, 118, 105, 100, 105, 97>>, <<78, 86, 68, 65>> >>,  \* 23: "nvidia": "NVDA"
       << <<110, 118, 100, 105, 97>>, <<78, 86, 68, 65>> >>,  \* 24: "nvdia": "NVDA"
       << <<110, 118, 105, 105, 100, 97>>, <<78, 86, 68, 65>> >>,  \* 25: "nviida": "NVDA"
       << <<110, 118, 105, 100, 97>>, <<78, 86, 68, 65>> >>,  \* 26: "nvida": "NVDA"
       << <<116, 101, 115, 108, 97>>, <<84, 83, 76, 65>> >>,  \* 27: "tesla": "TSLA"
       << <<116, 101, 108, 115, 97>>, <<84, 83, 76, 65>> >>,  \* 28: "telsa": "TSLA"
       << <<105, 110, 116, 101, 108>>, <<73, 78, 84, 67>> >>,  \* 29: "intel": "INTC"
       << <<97, 109, 100>>, <<65, 77, 68>> >>,  \* 30: "amd": "AMD"
       << <<105, 98, 109>>, <<73, 66, 77>> >>,  \* 31: "ibm": "IBM"
       << <<111, 114, 97, 99, 108, 101>>, <<79, 82, 67, 76>> >>,  \* 32: "oracle": "ORCL"
       << <<115, 97, 108, 101, 115, 102, 111, 114, 99, 101>>, <<67, 82, 77>> >>,  \* 33: "salesforce": "CRM"
       << <<97, 100, 111, 98, 101>>, <<65, 68, 66, 69>> >>,  \* 34: "adobe": "ADBE"
       << <<99, 105, 115, 99, 111>>, <<67, 83, 67, 79>> >>,  \* 35: "cisco": "CSCO"
       << <<113, 117, 97, 108, 99, 111, 109, 109>>, <<81, 67, 79, 77>> >>,  \* 36: "qualcomm": "QCOM"
       << <<98, 114, 111, 97, 100, 99, 111, 109>>, <<65, 86, 71, 79>> >>,  \* 37: "broadcom": "AVGO"
       << <<112, 97, 121, 112, 97, 108>>, <<80, 89, 80, 76>> >>,  \* 38: "paypal": "PYPL"
       << <<117, 98, 101, 114>>, <<85, 66, 69, 82>> >>,  \* 39: "uber": "UBER"
       << <<108, 121, 102, 116>>, <<76, 89, 70, 84>> >>,  \* 40: "lyft": "LYFT"
       << <<97, 105, 114, 98, 110, 98>>, <<65, 66, 78, 66>> >>,  \* 41: "airbnb": "ABNB"
       << <<115, 112, 111, 116, 105, 102, 121>>, <<83, 80, 79, 84>> >>,  \* 42: "spotify": "SPOT"
       << <<115, 110, 97, 112>>, <<83, 78, 65, 80>> >>,  \* 43: "snap": "SNAP"
       << <<115, 110, 97, 112, 99, 104, 97, 116>>, <<83, 78, 65, 80>> >>,  \* 44: "snapchat": "SNAP"
       << <<116, 119, 105, 116, 116, 101, 114>>, <<88>> >>,  \* 45: "twitter": "X"
       << <<120>>, <<88>> >>,  \* 46: "x": "X"
       << <<112, 105, 110, 116, 101, 114, 101, 115, 116>>, <<80, 73, 78, 83>> >>,  \* 47: "pinterest": "PINS"
       << <<122, 111, 111, 109>>, <<90, 77>> >>,  \* 48: "zoom": "ZM"
       << <<115, 104, 111, 112, 105, 102, 121>>, <<83, 72, 79, 80>> >>,  \* 49: "shopify": "SHOP"
       << <<115, 113, 117, 97, 114, 101>>, <<83, 81>> >>,  \* 50: "square": "SQ"
       << <<98, 108, 111, 99, 107>>, <<83, 81>> >>,  \* 51: "block": "SQ"
       << <<112, 97, 108, 97, 110, 116, 105, 114>>, <<80, 76, 84, 82>> >>,  \* 52: "palantir": "PLTR"
       << <<115, 110, 111, 119, 102, 108, 97, 107, 101>>, <<83, 78, 79, 87>> >>,  \* 53: "snowflake": "SNOW"
       << <<99, 114, 111, 119, 100, 115, 116, 114, 105, 107, 101>>, <<67, 82, 87, 68>> >>,  \* 54: "crowdstrike": "CRWD"
       << <<100, 97, 116, 97, 100, 111, 103>>, <<68, 68, 79, 71>> >>,  \* 55: "datadog": "DDOG"
       << <<115, 101, 114, 118, 105, 99, 101, 110, 111, 119>>, <<78, 79, 87>> >>,  \* 56: "servicenow": "NOW"
       << <<119, 111, 114, 107, 100, 97, 121>>, <<87, 68, 65, 89>> >>,  \* 57: "workday": "WDAY"
       << <<116, 119, 105, 108, 105, 111>>, <<84, 87, 76, 79>> >>,  \* 58: "twilio": "TWLO"
       << <<111, 107, 116, 97>>, <<79, 75, 84, 65>> >>,  \* 59: "okta": "OKTA"
       << <<115, 112, 108, 117, 110, 107>>, <<83, 80, 76, 75>> >>,  \* 60: "splunk": "SPLK"
       << <<109, 111, 110, 103, 111, 100, 98>>, <<77, 68, 66>> >>,  \* 61: "mongodb": "MDB"
       << <<101, 108, 97, 115, 116, 105, 99>>, <<69, 83, 84, 67>> >>,  \* 62: "elastic": "ESTC"
       << <<99, 108, 111, 117, 100, 102, 108, 97, 114, 101>>, <<78, 69, 84>> >>,  \* 63: "cloudflare": "NET"
       << <<100, 111, 99, 117, 115, 105, 103, 110>>, <<68, 79, 67, 85>> >>,  \* 64: "docusign": "DOCU"
       << <<100, 114, 111, 112, 98, 111, 120>>, <<68, 66, 88>> >>,  \* 65: "dropbox": "DBX"
       << <<114, 111, 98, 108, 111, 120>>, <<82, 66, 76, 88>> >>,  \* 66: "roblox": "RBLX"
       << <<117, 110, 105, 116, 121>>, <<85>> >>,  \* 67: "unity": "U"
       << <<99, 111, 105, 110, 98, 97, 115, 101>>, <<67, 79, 73, 78>> >>,  \* 68: "coinbase": "COIN"
       << <<114, 111, 98, 105, 110, 104, 111, 111, 100>>, <<72, 79, 79, 68>> >>,  \* 69: "robinhood": "HOOD"
       << <<106, 112, 109, 111, 114, 103, 97, 110>>, <<74, 80, 77>> >>,  \* 72: "jpmorgan": "JPM"
       << <<106, 112, 32, 109, 111, 114, 103, 97, 110>>, <<74, 80, 77>> >>,  \* 73: "jp morgan": "JPM"
       << <<99, 104, 97, 115, 101>>, <<74, 80, 77>> >>,  \* 74: "chase": "JPM"
       << <<98, 97, 110, 107, 32, 111, 102, 32, 97, 109, 101, 114, 105, 99, 97>>, <<66, 65, 67>> >>,  \* 75: "bank of america": "BAC"
       << <<98, 111, 102, 97>>, <<66, 65, 67>> >>,  \* 76: "bofa": "BAC"
       << <<119, 101, 108, 108, 115, 32, 102, 97, 114, 103, 111>>, <<87, 70, 67>> >>,  \* 77: "wells fargo": "WFC"
       << <<99, 105, 116, 105, 103, 114, 111, 117, 112>>, <<67>> >>,  \* 78: "citigroup": "C"
       << <<99, 105, 116, 105>>, <<67>> >>,  \* 79: "citi": "C"
       << <<103, 111, 108, 100, 109, 97, 110, 32, 115, 97, 99, 104, 115>>, <<71, 83>> >>,  \* 80: "goldman sachs": "GS"
       << <<103, 111, 108, 100, 109, 97, 110>>, <<71, 83>> >>,  \* 81: "goldman": "GS"
       << <<109, 111, 114, 103, 97, 110, 32, 115, 116, 97, 110, 108, 101, 121>>, <<77, 83>> >>,  \* 82: "morgan stanley": "MS"
       << <<98, 108, 97, 99, 107, 114, 111, 99, 107>>, <<66, 76, 75>> >>,  \* 83: "blackrock": "BLK"
       << <<99, 104, 97, 114, 108, 101, 115, 32, 115, 99, 104, 119, 97, 98>>, <<83, 67, 72, 87>> >>,  \* 84: "charles schwab": "SCHW"
       << <<115, 99, 104, 119, 97, 98>>, <<83, 67, 72, 87>> >>,  \* 85: "schwab": "SCHW"
       << <<118, 105, 115, 97>>, <<86>> >>,  \* 86: "visa": "V"
       << <<109, 97, 115, 116, 101, 114, 99, 97, 114, 100>>, <<77, 65>> >>,  \* 87: "mastercard": "MA"
       << <<97, 109, 101, 114, 105, 99, 97, 110, 32, 101, 120, 112, 114, 101, 115, 115>>, <<65, 88, 80>> >>,  \* 88: "american express": "AXP"
       << <<97, 109, 101, 120>>, <<65, 88, 80>> >>,  \* 89: "amex": "AXP"
       << <<98, 101, 114, 107, 115, 104, 105, 114, 101, 32, 104, 97, 116, 104, 97, 119, 97, 121>>, <<66, 82, 75, 45, 66>> >>,  \* 90: "berkshire hathaway": "BRK-B"
       << <<98, 101, 114, 107, 115, 104, 105, 114, 101>>, <<66, 82, 75, 45, 66>> >>,  \* 91: "berkshire": "BRK-B"
       << <<119, 97, 108, 109, 97, 114, 116>>, <<87, 77, 84>> >>,  \* 94: "walmart": "WMT"
       << <<116, 97, 114, 103, 101, 116>>, <<84, 71, 84>> >>,  \* 95: "target": "TGT"
       << <<99, 111, 115, 116, 99, 111>>, <<67, 79, 83, 84>> >>,  \* 96: "costco": "COST"
       << <<104, 111, 109, 101, 32, 100, 101, 112, 111, 116>>, <<72, 68>> >>,  \* 97: "home depot": "HD"
       << <<108, 111, 119, 101, 115>>, <<76, 79, 87>> >>,  \* 98: "lowes": "LOW"
       << <<110, 105, 107, 101>>, <<78, 75, 69>> >>,  \* 99: "nike": "NKE"
       << <<115, 116, 97, 114, 98, 117, 99, 107, 115>>, <<83, 66, 85, 88>> >>,  \* 100: "starbucks": "SBUX"
       << <<109, 99, 100, 111, 110, 97, 108, 100, 115>>, <<77, 67, 68>> >>,  \* 101: "mcdonalds": "MCD"
       << <<99, 111, 99, 97, 32, 99, 111, 108, 97>>, <<75, 79>> >>,  \* 102: "coca cola": "KO"
       << <<99, 111, 107, 101>>, <<75, 79>> >>,  \* 103: "coke": "KO"
       << <<112, 101, 112, 115, 105>>, <<80, 69, 80>> >>,  \* 104: "pepsi": "PEP"
       << <<112, 101, 112, 115, 105, 99, 111>>, <<80, 69, 80>> >>,  \* 105: "pepsico": "PEP"
       << <<100, 105, 115, 110, 101, 121>>, <<68, 73, 83>> >>,  \* 106: "disney": "DIS"
       << <<119, 97, 108, 116, 32, 100, 105, 115, 110, 101, 121>>, <<68, 73, 83>> >>,  \* 107: "walt disney": "DIS"
       << <<110, 101, 116, 102, 108, 105, 120>>, <<78, 70, 76, 88>> >>,  \* 108: "netflix": "NFLX"
       << <<99, 111, 109, 99, 97, 115, 116>>, <<67, 77, 67, 83, 65>> >>,  \* 109: "comcast": "CMCSA"
       << <<97, 116, 116>>, <<84>> >>,  \* 110: "att": "T"
       << <<97, 116, 38, 116>>, <<84>> >>,  \* 111: "at&t": "T"
       << <<118, 101, 114, 105, 122, 111, 110>>, <<86, 90>> >>,  \* 112: "verizon": "VZ"
       << <<116, 45, 109, 111, 98, 105, 108, 101>>, <<84, 77, 85, 83>> >>,  \* 113: "t-mobile": "TMUS"
       << <<106, 111, 104, 110, 115, 111, 110, 32, 38, 32, 106, 111, 104, 110, 115, 111, 110>>, <<74, 78, 74>> >>,  \* 116: "johnson & johnson": "JNJ"
       << <<106, 38, 106>>, <<74, 78, 74>> >>,  \* 117: "j&j": "JNJ"
       << <<112, 102, 105, 122, 101, 114>>, <<80, 70, 69>> >>,  \* 118: "pfizer": "PFE"
       << <<109, 111, 100, 101, 114, 110, 97>>, <<77, 82, 78, 65>> >>,  \* 119: "moderna": "MRNA"
       << <<109, 101, 114, 99, 107>>, <<77, 82, 75>> >>,  \* 120: "merck": "MRK"
       << <<97, 98, 98, 118, 105, 101>>, <<65, 66, 66, 86>> >>,  \* 121: "abbvie": "ABBV"
       << <<101, 108, 105, 32, 108, 105, 108, 108, 121>>, <<76, 76, 89>> >>,  \* 122: "eli lilly": "LLY"
       << <<108, 105, 108, 108, 121>>, <<76, 76, 89>> >>,  \* 123: "lilly": "LLY"
       << <<98, 114, 105, 115, 116, 111, 108, 32, 109, 121, 101, 114, 115>>, <<66, 77, 89>> >>,  \* 124: "bristol myers": "BMY"
       << <<97, 109, 103, 101, 110>>, <<65, 77, 71, 78>> >>,  \* 125: "amgen": "AMGN"
       << <<103, 105, 108, 101, 97, 100>>, <<71, 73, 76, 68>> >>,  \* 126: "gilead": "GILD"
       << <<114, 101, 103, 101, 110, 101, 114, 111, 110>>, <<82, 69, 71, 78>> >>,  \* 127: "regeneron": "REGN"
       << <<117, 110, 105, 116, 101, 100, 104, 101, 97, 108, 116, 104>>, <<85, 78, 72>> >>,  \* 128: "unitedhealth": "UNH"
       << <<99, 118, 115>>, <<67, 86, 83>> >>,  \* 129: "cvs": "CVS"
       << <<119, 97, 108, 103, 114, 101, 101, 110, 115>>, <<87, 66, 65>> >>,  \* 130: "walgreens": "WBA"
       << <<122, 111, 101, 116, 105, 115>>, <<90, 84, 83>> >>,  \* 131: "zoetis": "ZTS"
       << <<110, 101, 117, 114, 111, 99, 114, 105, 110, 101>>, <<78, 66, 73, 88>> >>,  \* 132: "neurocrine": "NBIX"
       << <<110, 101, 117, 114, 111, 99, 114, 105, 110, 101, 32, 98, 105, 111, 115, 99, 105, 101, 110, 99, 101, 115>>, <<78, 66, 73, 88>> >>,  \* 133: "neurocrine biosciences": "NBIX"
       << <<101, 120, 120, 111, 110>>, <<88, 79, 77>> >>,  \* 136: "exxon": "XOM"
       << <<101, 120, 120, 111, 110, 109, 111, 98, 105, 108>>, <<88, 79, 77>> >>,  \* 137: "exxonmobil": "XOM"
       << <<99, 104, 101, 118, 114, 111, 110>>, <<67, 86, 88>> >>,  \* 138: "chevron": "CVX"
       << <<99, 111, 110, 111, 99, 111, 112, 104, 105, 108, 108, 105, 112, 115>>, <<67, 79, 80>> >>,  \* 139: "conocophillips": "COP"
       << <<115, 104, 101, 108, 108>>, <<83, 72, 69, 76>> >>,  \* 140: "shell": "SHEL"
       << <<98, 112>>, <<66, 80>> >>,  \* 141: "bp": "BP"
       << <<98, 111, 101, 105, 110, 103>>, <<66, 65>> >>,  \* 144: "boeing": "BA"
       << <<108, 111, 99, 107, 104, 101, 101, 100, 32, 109, 97, 114, 116, 105, 110>>, <<76, 77, 84>> >>,  \* 145: "lockheed martin": "LMT"
       << <<108, 111, 99, 107, 104, 101, 101, 100>>, <<76, 77, 84>> >>,  \* 146: "lockheed": "LMT"
       << <<114, 97, 121, 116, 104, 101, 111, 110>>, <<82, 84, 88>> >>,  \* 147: "raytheon": "RTX"
       << <<103, 101, 110, 101, 114, 97, 108, 32, 101, 108, 101, 99, 116, 114, 105, 99>>, <<71, 69>> >>,  \* 148: "general electric": "GE"
       << <<103, 101>>, <<71, 69>> >>,  \* 149: "ge": "GE"
       << <<51, 109>>, <<77, 77, 77>> >>,  \* 150: "3m": "MMM"
       << <<99, 97, 116, 101, 114, 112, 105, 108, 108, 97, 114>>, <<67, 65, 84>> >>,  \* 151: "caterpillar": "CAT"
       << <<100, 101, 101, 114, 101>>, <<68, 69>> >>,  \* 152: "deere": "DE"
       << <<106, 111, 104, 110, 32, 100, 101, 101, 114, 101>>, <<68, 69>> >>,  \* 153: "john deere": "DE"
       << <<102, 111, 114, 100>>, <<70>> >>,  \* 154: "ford": "F"
       << <<103, 101, 110, 101, 114, 97, 108, 32, 109, 111, 116, 111, 114, 115>>, <<71, 77>> >>,  \* 155: "general motors": "GM"
       << <<103, 109>>, <<71, 77>> >>,  \* 156: "gm": "GM"
       << <<114, 105, 118, 105, 97, 110>>, <<82, 73, 86, 78>> >>,  \* 157: "rivian": "RIVN"
       << <<108, 117, 99, 105, 100>>, <<76, 67, 73, 68>> >>,  \* 158: "lucid": "LCID"
       << <<116, 115, 109, 99>>, <<84, 83, 77>> >>,  \* 161: "tsmc": "TSM"
       << <<116, 97, 105, 119, 97, 110, 32, 115, 101, 109, 105, 99, 111, 110, 100, 117, 99, 116, 111, 114>>, <<84, 83, 77>> >>,  \* 162: "taiwan semiconductor": "TSM"
       << <<97, 115, 109, 108>>, <<65, 83, 77, 76>> >>,  \* 163: "asml": "ASML"
       << <<97, 112, 112, 108, 105, 101, 100, 32, 109, 97, 116, 101, 114, 105, 97, 108, 115>>, <<65, 77, 65, 84>> >>,  \* 164: "applied materials": "AMAT"
       << <<108, 97, 109, 32, 114, 101, 115, 101, 97, 114, 99, 104>>, <<76, 82, 67, 88>> >>,  \* 165: "lam research": "LRCX"
       << <<109, 105, 99, 114, 111, 110>>, <<77, 85>> >>,  \* 166: "micron": "MU"
       << <<116, 101, 120, 97, 115, 32, 105, 110, 115, 116, 114, 117, 109, 101, 110, 116, 115>>, <<84, 88, 78>> >>,  \* 167: "texas instruments": "TXN"
       << <<109, 97, 114, 118, 101, 108, 108>>, <<77, 82, 86, 76>> >>,  \* 168: "marvell": "MRVL"
       << <<97, 114, 109>>, <<65, 82, 77>> >>,  \* 169: "arm": "ARM"
       << <<115, 112, 121>>, <<83, 80, 89>> >>,  \* 172: "spy": "SPY"
       << <<115, 38, 112, 32, 53, 48, 48>>, <<83, 80, 89>> >>,  \* 173: "s&p 500": "SPY"
       << <<115, 38, 112>>, <<83, 80, 89>> >>,  \* 174: "s&p": "SPY"
       << <<113, 113, 113>>, <<81, 81, 81>> >>,  \* 175: "qqq": "QQQ"
       << <<110, 97, 115, 100, 97, 113>>, <<81, 81, 81>> >>,  \* 176: "nasdaq": "QQQ"
       << <<100, 105, 97>>, <<68, 73, 65>> >>,  \* 177: "dia": "DIA"
       << <<100, 111, 119, 32, 106, 111, 110, 101, 115>>, <<68, 73, 65>> >>,  \* 178: "dow jones": "DIA"
       << <<100, 111, 119>>, <<68, 73, 65>> >>,  \* 179: "dow": "DIA"
       << <<105, 119, 109>>, <<73, 87, 77>> >>,  \* 180: "iwm": "IWM"
       << <<114, 117, 115, 115, 101, 108, 108>>, <<73, 87, 77>> >>,  \* 181: "russell": "IWM"
       << <<118, 111, 111>>, <<86, 79, 79>> >>,  \* 182: "voo": "VOO"
       << <<97, 114, 107, 107>>, <<65, 82, 75, 75>> >>,  \* 183: "arkk": "ARKK"
       << <<97, 114, 107>>, <<65, 82, 75, 75>> >>   \* 184: "ark": "ARKK"
    >>

(***************************************************************************)
(* difflib, as called at line 214: get_close_matches(cleaned, keys, n=1,  *)
(* cutoff=0.8).  SequenceMatcher(isjunk=None) with seq1 = the candidate   *)
(* and seq2 = the word; autojunk only acts on sequences of 200 or more    *)
(* elements, so no element is junk here.  A ratio 2.0*M/T is kept as the  *)
(* pair <<2*M, T>> and compared exactly: for lengths this small distinct  *)
(* fractions are distinct floats, and 2.0*M/T >= 0.8 iff 2*M*5 >= 4*T.    *)
(***************************************************************************)

\* cutoff=0.8 is CutoffNum / CutoffDen.
CutoffNum == 4
CutoffDen == 5

\* Length of the common run of a[i:ahi] and b[j:bhi] (0-based, half-open).
RECURSIVE RunLen(_, _, _, _, _, _)
RunLen(a, b, i, j, ahi, bhi) ==
    IF i < ahi /\ j < bhi /\ a[i + 1] = b[j + 1]
    THEN 1 + RunLen(a, b, i + 1, j + 1, ahi, bhi)
    ELSE 0

\* The run length at every pair of starts of the window a[alo:ahi], b[blo:bhi].
Runs(a, b, alo, ahi, blo, bhi) ==
    [p \in (alo..(ahi - 1)) \X (blo..(bhi - 1)) |->
        RunLen(a, b, p[1], p[2], ahi, bhi)]

\* The greatest and the least element of a non-empty set of integers.
MaxOf(S) == CHOOSE v \in S : \A w \in S : w <= v

MinOf(S) == CHOOSE v \in S : \A w \in S : v <= w

\* Of the starts `longest` that begin at i in a, the earliest in b.
EarliestIn(longest, i, k) ==
    <<i, MinOf({p[2] : p \in {q \in longest : q[1] = i}}), k>>

\* Of the starts of the runs of the greatest length k, the earliest in a,
\* then the earliest in b.
EarliestBlock(longest, k) ==
    EarliestIn(longest, MinOf({p[1] : p \in longest}), k)

\* The block of the greatest run length k, <<alo, blo, 0>> when nothing matches.
LongestBlock(run, k, alo, blo) ==
    IF k = 0
    THEN <<alo, blo, 0>>
    ELSE EarliestBlock({p \in DOMAIN run : run[p] = k}, k)

\* SequenceMatcher.find_longest_match(alo, ahi, blo, bhi): <<i, j, k>>, the
\* longest block a[i:i+k] = b[j:j+k] in the window; of those the one that
\* starts earliest in a, and of those the one that starts earliest in b;
\* <<alo, blo, 0>> when nothing matches.
LongestOfRuns(run, alo, blo) ==
    LongestBlock(run, MaxOf({run[p] : p \in DOMAIN run} \cup {0}), alo, blo)

FindLongestMatch(a, b, alo, ahi, blo, bhi) ==
    LongestOfRuns(Runs(a, b, alo, ahi, blo, bhi), alo, blo)

\* The sum of the sizes of SequenceMatcher.get_matching_blocks(): the longest
\* match m of the window, then the same to its left and to its right.
RECURSIVE MatchingSize(_, _, _, _, _, _)
RECURSIVE MatchingAround(_, _, _, _, _, _, _)
MatchingAround(a, b, alo, ahi, blo, bhi, m) ==
    IF m[3] = 0
    THEN 0
    ELSE m[3]
         + (IF alo < m[1] /\ blo < m[2]
            THEN MatchingSize(a, b, alo, m[1], blo, m[2]) ELSE 0)
         + (IF m[1] + m[3] < ahi /\ m[2] + m[3] < bhi
            THEN MatchingSize(a, b, m[1] + m[3], ahi, m[2] + m[3], bhi) ELSE 0)

MatchingSize(a, b, alo, ahi, blo, bhi) ==
    MatchingAround(a, b, alo, ahi, blo, bhi,
                   FindLongestMatch(a, b, alo, ahi, blo, bhi))

\* difflib._calculate_ratio(matches, length)
CalculateRatio(matched, length) ==
    IF length > 0 THEN <<2 * matched, length>> ELSE <<1, 1>>

\* SequenceMatcher.ratio()
Ratio(a, b) ==
    CalculateRatio(MatchingSize(a, b, 0, Len(a), 0, Len(b)), Len(a) + Len(b))

RECURSIVE SumOver(_, _)
SumOver(f, S) ==
    IF S = {} THEN 0
    ELSE LET e == CHOOSE e \in S : TRUE IN f[e] + SumOver(f, S \ {e})

\* SequenceMatcher.quick_ratio(): each element of a counts as a match while
\* b still has an unused occurrence of it.
QuickRatio(a, b) ==
    LET elts == {a[i] : i \in 1..Len(a)}
        cnt(s, e) == Cardinality({i \in 1..Len(s) : s[i] = e})
        avail == [e \in elts |->
                     IF cnt(a, e) < cnt(b, e) THEN cnt(a, e) ELSE cnt(b, e)]
    IN  CalculateRatio(SumOver(avail, elts), Len(a) + Len(b))

\* SequenceMatcher.real_quick_ratio()
RealQuickRatio(a, b) ==
    CalculateRatio(IF Len(a) < Len(b) THEN Len(a) ELSE Len(b), Len(a) + Len(b))

\* AtLeastCutoff with a cutoff of 0.75.
AtLeastCutoffLoose(score) == score[1] * 4 >= 3 * score[2]

\* AtLeastCutoff with > for >=.
AtLeastCutoffStrict(score) == score[1] * CutoffDen > CutoffNum * score[2]

\* score >= cutoff
AtLeastCutoff(score) == score[1] * CutoffDen >= CutoffNum * score[2]

\* TupleGreater comparing the scores only.
TupleGreaterByScore(t1, t2) == t1[1][1] * t2[1][2] > t2[1][1] * t1[1][2]

\* (score1, x1) > (score2, x2) for the tuples get_close_matches collects.
TupleGreater(t1, t2) ==
    LET l == t1[1][1] * t2[1][2]
        r == t2[1][1] * t1[1][2]
    IN  l > r \/ (l = r /\ StrLess(t2[2], t1[2]))

\* The three tests of get_close_matches on possibility x.
IsClose(x, word) ==
    /\ AtLeastCutoff(RealQuickRatio(x, word))
    /\ AtLeastCutoff(QuickRatio(x, word))
    /\ AtLeastCutoff(Ratio(x, word))

\* The n-th smallest element of a set of naturals.
Nth(S, n) == CHOOSE i \in S : Cardinality({j \in S : j < i}) = n - 1

\* (s.ratio(), x) for the possibilities at the indices hits, in order.
ScoredInOrder(hits, word, possibilities) ==
    [n \in 1..Cardinality(hits) |->
        <<Ratio(possibilities[Nth(hits, n)], word), possibilities[Nth(hits, n)]>>]

\* The list `result` of get_close_matches: (ratio, x) for every possibility
\* x, in order, that passes the three cutoff tests.
CloseResult(word, possibilities) ==
    ScoredInOrder({i \in 1..Len(possibilities) : IsClose(possibilities[i], word)},
                  word, possibilities)

\* max(result): the first of the greatest tuples.
RECURSIVE MaxFrom(_, _, _)
MaxFrom(result, i, best) ==
    IF i > Len(result) THEN best
    ELSE MaxFrom(result, i + 1,
                 IF TupleGreater(result[i], best) THEN result[i] ELSE best)

\* heapq.nlargest(1, result), then [x for score, x in result].
BestOf(result) ==
    IF result = <<>> THEN <<>> ELSE << MaxFrom(result, 2, result[1])[2] >>

\* get_close_matches(word, possibilities, n=1, cutoff=0.8): the list of the
\* best match, or the empty list.
GetCloseMatches(word, possibilities) == BestOf(CloseResult(word, possibilities))

(***************************************************************************)
(* dict operations on a list of (key, value) pairs.                        *)
(***************************************************************************)

\* d.keys(), in insertion order
DictKeys(d) == [i \in 1..Len(d) |-> d[i][1]]

\* k in d
DictHas(d, k) == \E i \in 1..Len(d) : d[i][1] = k

\* d[k]
DictGet(d, k) == d[CHOOSE i \in 1..Len(d) : d[i][1] = k][2]

\* A dict display that keeps every item written, repeated keys too.
DictDisplayKeepsRepeats(items) == items

\* The dict a display {k1: v1, k2: v2, ...} builds: the items are stored in
\* order, and an item whose key is already there replaces the value and
\* leaves the key at its first position.
DictDisplay(items) ==
    LET firsts == {i \in 1..Len(items) : \A j \in 1..(i - 1) : items[j][1] # items[i][1]}
        last(k) == CHOOSE i \in 1..Len(items) :
                       /\ items[i][1] = k
                       /\ \A j \in (i + 1)..Len(items) : items[j][1] # k
    IN  [n \in 1..Cardinality(firsts) |->
            <<items[Nth(firsts, n)][1], items[last(items[Nth(firsts, n)][1])][2]>>]

(***************************************************************************)
(* The inputs and the provider outcomes of the model.                      *)
(***************************************************************************)

\* Most spaces put before and after a word.
MaxPad == 1

\* Longest string over SmallAlphabet given as input.
MaxLen == 3

Spaces(n) == [i \in 1..n |-> 32]

Padded(w) == {Spaces(l) \o w \o Spaces(r) : l \in 0..MaxPad, r \in 0..MaxPad}

\* w as typed in lower case, in upper case and capitalized.
CaseVariants(w) ==
    {w, Upper(w), [i \in 1..Len(w) |-> IF i = 1 THEN UpperChar(w[i]) ELSE w[i]]}

Aliases == {COMPANY_TO_TICKER_LITERAL[i][1] : i \in 1..Len(COMPANY_TO_TICKER_LITERAL)}

AliasInputs == UNION {Padded(v) : v \in UNION {CaseVariants(a) : a \in Aliases}}

\* "g", "e", "M", " "
SmallAlphabet == {103, 101, 77, 32}

\* Every string over SmallAlphabet of at most MaxLen characters.
ShortInputs == UNION {[1..n -> SmallAlphabet] : n \in 0..MaxLen}

W_gogle == <<103, 111, 103, 108, 101>>  \* "gogle"
W_zotis == <<122, 111, 116, 105, 115>>  \* "zotis"
W_zoetiss == <<122, 111, 101, 116, 105, 115, 115>>  \* "zoetiss"
W_microsft == <<109, 105, 99, 114, 111, 115, 102, 116>>  \* "microsft"
W_teslla == <<116, 101, 115, 108, 108, 97>>  \* "teslla"
W_gem == <<103, 101, 109>>  \* "gem"
W_AAPL == <<65, 65, 80, 76>>  \* "AAPL"
W_NVDA == <<78, 86, 68, 65>>  \* "NVDA"
W_ZZ == <<90, 90>>  \* "ZZ"
W_Obscure == <<83, 111, 109, 101, 79, 98, 115, 99, 117, 114, 101, 83, 116, 97, 114, 116, 117, 112, 88, 89, 90>>  \* "SomeObscureStartupXYZ"
W_TabGoogleNl == <<9, 71, 111, 111, 103, 108, 101, 10>>  \* "\tGoogle\n"
W_acme == <<97, 99, 109, 101, 32, 99, 111, 114, 112>>  \* "acme corp"

T_GOOGL == <<71, 79, 79, 71, 76>>  \* "GOOGL"
T_ZTS == <<90, 84, 83>>  \* "ZTS"
T_MSFT == <<77, 83, 70, 84>>  \* "MSFT"
T_TSLA == <<84, 83, 76, 65>>  \* "TSLA"
T_GM == <<71, 77>>  \* "GM"
T_XYZQ == <<88, 89, 90, 81>>  \* "XYZQ"
UNKNOWN == <<85, 78, 75, 78, 79, 87, 78>>  \* "UNKNOWN"

\* The inputs of the tests and of the spec's scenarios, and a few more.
TestWords ==
    {W_gogle, W_zotis, W_zoetiss, W_microsft, W_teslla, W_AAPL, W_NVDA, W_ZZ,
     W_Obscure, W_TabGoogleNl, W_acme}

\* The canonical tickers: the values of the dict.
\* COMPANY_TO_TICKER as the module builds it when it is imported.
COMPANY_TO_TICKER_BUILT == DictDisplay(COMPANY_TO_TICKER_LITERAL)

\* The canonical tickers: the values of the dict.
Tickers == {COMPANY_TO_TICKER_LITERAL[i][2] : i \in 1..Len(COMPANY_TO_TICKER_LITERAL)}

Inputs ==
    AliasInputs \cup ShortInputs \cup Tickers \cup UNION {Padded(w) : w \in TestWords}

\* message.content[0].text of the provider's answers in the model.
AiTexts ==
    {T_XYZQ,
     <<32, 120, 121, 122, 113, 10>>,  \* " xyzq\n"
     UNKNOWN,
     <<117, 110, 107, 110, 111, 119, 110, 10>>,  \* "unknown\n"
     <<>>,  \* ""
     <<32>>,  \* " "
     T_GOOGL,
     <<71, 79, 79, 71, 76, 69>>}  \* "GOOGLE"

\* What client.messages.create(...) and message.content[0].text can do: give
\* a text, raise (API error, timeout), or hold no text block (malformed).
AiOutcomes ==
    {[kind |-> "text", text |-> t] : t \in AiTexts}
        \cup {[kind |-> "raise", text |-> <<>>], [kind |-> "malformed", text |-> <<>>]}

NoReply == [kind |-> "none", text |-> <<>>]

\* Python's None, as a value no str equals.
None == <<-1>>

IsStr(v) == v \in Seq(0..127)

Calls == {1, 2}

(***************************************************************************)
(* State.  Per call of resolve_ticker: its position, argument, locals and  *)
(* result, and what it did (steps, aiCalls, aiArg, aiReply).               *)
(***************************************************************************)
VARIABLES
    COMPANY_TO_TICKER,  \* the module-level dict
    pc,                 \* call -> "idle", "exact", "fuzzy", "ai", "ai_wait", "passthrough", "done"
    input_str,          \* call -> the argument
    cleaned,            \* call -> the local `cleaned`
    matches,            \* call -> the local `matches`
    retval,             \* call -> the value returned, None before
    method,             \* call -> the step that returned: "exact", "fuzzy", "ai", "passthrough"
    raised,             \* call -> an exception left resolve_ticker
    steps,              \* call -> the steps evaluated so far, in order
    aiCalls,            \* call -> number of client.messages.create calls
    aiArg,              \* call -> company_name of the provider call
    aiReply,            \* call -> the provider's outcome
    answered,           \* the provider's (argument, outcome) pairs so far
    get_company_name,   \* the call of get_company_name: its position, argument and result
    extract_rating,     \* the call of _extract_rating: its position, argument and result
    analysis_service,   \* routes.py: the module-level analysis_service
    analyze_stock,      \* the request in analyze_stock: its position, query, ticker and status
    analyze,            \* the call of AnalysisService.analyze: its position and argument
    get_stock_data,     \* the call of DataService.get_stock_data and what the provider supplies
    fetch_stock_data    \* the call of DataService.fetch_stock_data and what the news provider does

vars ==
    <<COMPANY_TO_TICKER, pc, input_str, cleaned, matches, retval, method, raised,
      steps, aiCalls, aiArg, aiReply, answered, get_company_name, extract_rating,
      analysis_service, analyze_stock, analyze, get_stock_data, fetch_stock_data>>

\* The state of the other modules: ticker_service.py neither reads nor
\* writes it.
beyondTicker ==
    <<extract_rating, analysis_service, analyze_stock, analyze, get_stock_data,
      fetch_stock_data>>

\* What resolve_ticker and _ai_lookup_ticker neither read nor write.
outside == <<get_company_name, beyondTicker>>

\* Before fetch_stock_data is called, the news provider has returned nothing.
NoNews == [items |-> <<>>, fails |-> FALSE]

\* Before get_stock_data is called, no provider has answered.
NoProvider == [supplied |-> {}, zeros |-> {}, cap |-> "small", fails |-> FALSE]

Init ==
    /\ COMPANY_TO_TICKER = COMPANY_TO_TICKER_BUILT
    /\ pc = [c \in Calls |-> "idle"]
    /\ input_str = [c \in Calls |-> <<>>]
    /\ cleaned = [c \in Calls |-> <<>>]
    /\ matches = [c \in Calls |-> <<>>]
    /\ retval = [c \in Calls |-> None]
    /\ method = [c \in Calls |-> "none"]
    /\ raised = [c \in Calls |-> FALSE]
    /\ steps = [c \in Calls |-> <<>>]
    /\ aiCalls = [c \in Calls |-> 0]
    /\ aiArg = [c \in Calls |-> <<>>]
    /\ aiReply = [c \in Calls |-> NoReply]
    /\ answered = {}
    /\ get_company_name = [pc |-> "idle", ticker |-> <<>>, retval |-> None]
    /\ extract_rating = [pc |-> "idle", analysis |-> <<>>, retval |-> None]
    /\ analysis_service = "unset"
    /\ analyze_stock = [pc |-> "idle", query |-> <<>>, ticker |-> None, status_code |-> 0]
    /\ analyze = [pc |-> "idle", ticker |-> None]
    /\ get_stock_data = [pc |-> "idle", ticker |-> "", provider |-> NoProvider, retval |-> None]
    /\ fetch_stock_data =
           [pc |-> "idle", ticker |-> "", news |-> NoNews, retval |-> None, raised |-> FALSE]

\* `return value` from step m.
Return(c, value, m) ==
    /\ retval' = [retval EXCEPT ![c] = value]
    /\ method' = [method EXCEPT ![c] = m]
    /\ pc' = [pc EXCEPT ![c] = "done"]

\* An exception leaves resolve_ticker.
Raise(c) ==
    /\ raised' = [raised EXCEPT ![c] = TRUE]
    /\ pc' = [pc EXCEPT ![c] = "done"]
    /\ UNCHANGED <<retval, method>>

\* A caller calls resolve_ticker(s).
Call(c, s) ==
    /\ pc[c] = "idle"
    /\ input_str' = [input_str EXCEPT ![c] = s]
    /\ pc' = [pc EXCEPT ![c] = "exact"]
    /\ UNCHANGED outside
    /\ UNCHANGED <<COMPANY_TO_TICKER, cleaned, matches, retval, method, raised,
                   steps, aiCalls, aiArg, aiReply, answered>>

\* Clean without .lower().
CleanNoLower(s) == Strip(s)

\* Line 204: cleaned = input_str.strip().lower()
Clean(s) == Lower(Strip(s))

\* Exact keeping `cleaned` in one place shared by every call.
ExactSharesCleaned(c) ==
    /\ pc[c] = "exact"
    /\ LET cl == Clean(input_str[c])
       IN  /\ cleaned' = [k \in Calls |-> cl]
           /\ steps' = [steps EXCEPT ![c] = Append(@, "exact")]
           /\ IF DictHas(COMPANY_TO_TICKER, cl)
              THEN Return(c, DictGet(COMPANY_TO_TICKER, cl), "exact")
              ELSE /\ pc' = [pc EXCEPT ![c] = "fuzzy"]
                   /\ UNCHANGED <<retval, method>>
    /\ UNCHANGED outside
    /\ UNCHANGED <<COMPANY_TO_TICKER, input_str, matches, raised, aiCalls, aiArg,
                   aiReply, answered>>

\* Exact going on to the AI step, past the fuzzy match, when the lookup misses.
ExactSkipsFuzzy(c) ==
    /\ pc[c] = "exact"
    /\ LET cl == Clean(input_str[c])
       IN  /\ cleaned' = [cleaned EXCEPT ![c] = cl]
           /\ steps' = [steps EXCEPT ![c] = Append(@, "exact")]
           /\ IF DictHas(COMPANY_TO_TICKER, cl)
              THEN Return(c, DictGet(COMPANY_TO_TICKER, cl), "exact")
              ELSE /\ pc' = [pc EXCEPT ![c] = "ai"]
                   /\ UNCHANGED <<retval, method>>
    /\ UNCHANGED outside
    /\ UNCHANGED <<COMPANY_TO_TICKER, input_str, matches, raised, aiCalls, aiArg,
                   aiReply, answered>>

\* Lines 204-211: normalize, then the exact lookup.
Exact(c) ==
    /\ pc[c] = "exact"
    /\ LET cl == Clean(input_str[c])
       IN  /\ cleaned' = [cleaned EXCEPT ![c] = cl]
           /\ steps' = [steps EXCEPT ![c] = Append(@, "exact")]
           /\ IF DictHas(COMPANY_TO_TICKER, cl)
              THEN Return(c, DictGet(COMPANY_TO_TICKER, cl), "exact")
              ELSE /\ pc' = [pc EXCEPT ![c] = "fuzzy"]
                   /\ UNCHANGED <<retval, method>>
    /\ UNCHANGED outside
    /\ UNCHANGED <<COMPANY_TO_TICKER, input_str, matches, raised, aiCalls, aiArg,
                   aiReply, answered>>

\* FuzzyOutcome looking the ticker up under `cleaned`, not `matched_name`.
FuzzyOutcomeWrongKey(c, m) ==
    /\ matches' = [matches EXCEPT ![c] = m]
    /\ IF m # <<>>
       THEN IF DictHas(COMPANY_TO_TICKER, cleaned[c])
            THEN Return(c, DictGet(COMPANY_TO_TICKER, cleaned[c]), "fuzzy")
                 /\ UNCHANGED raised
            ELSE Raise(c)
       ELSE /\ pc' = [pc EXCEPT ![c] = "ai"]
            /\ UNCHANGED <<retval, method, raised>>

\* Lines 215-219 on the list m that get_close_matches returned.
\* COMPANY_TO_TICKER[matched_name] raises KeyError, outside any try, when
\* matched_name is no key.
FuzzyOutcome(c, m) ==
    /\ matches' = [matches EXCEPT ![c] = m]
    /\ IF m # <<>>
       THEN IF DictHas(COMPANY_TO_TICKER, m[1])
            THEN Return(c, DictGet(COMPANY_TO_TICKER, m[1]), "fuzzy")
                 /\ UNCHANGED raised
            ELSE Raise(c)
       ELSE /\ pc' = [pc EXCEPT ![c] = "ai"]
            /\ UNCHANGED <<retval, method, raised>>

\* Lines 214-219: the fuzzy match.
Fuzzy(c) ==
    /\ pc[c] = "fuzzy"
    /\ steps' = [steps EXCEPT ![c] = Append(@, "fuzzy")]
    /\ FuzzyOutcome(c, GetCloseMatches(cleaned[c], DictKeys(COMPANY_TO_TICKER)))
    /\ UNCHANGED outside
    /\ UNCHANGED <<COMPANY_TO_TICKER, input_str, cleaned, aiCalls, aiArg, aiReply,
                   answered>>

\* Line 223: len(input_str) > 2
AiMinLen == 2

\* LongEnoughForAi with >= for >.
LongEnoughForAiOffByOne(s) == Len(s) >= AiMinLen

LongEnoughForAi(s) == Len(s) > AiMinLen

\* AiStep that remembers which names were asked, not the answers: a name
\* asked before goes to the passthrough without a provider call.
AiStepRemembersAsked(c) ==
    /\ pc[c] = "ai"
    /\ IF LongEnoughForAi(input_str[c]) /\ ~(\E p \in answered : p[1] = input_str[c])
       THEN /\ aiCalls' = [aiCalls EXCEPT ![c] = @ + 1]
            /\ aiArg' = [aiArg EXCEPT ![c] = input_str[c]]
            /\ steps' = [steps EXCEPT ![c] = Append(@, "ai")]
            /\ pc' = [pc EXCEPT ![c] = "ai_wait"]
       ELSE /\ pc' = [pc EXCEPT ![c] = "passthrough"]
            /\ UNCHANGED <<aiCalls, aiArg, steps>>
    /\ UNCHANGED outside
    /\ UNCHANGED <<COMPANY_TO_TICKER, input_str, cleaned, matches, retval, method,
                   raised, aiReply, answered>>

\* Lines 222-225: the AI step is entered; the provider is called with the
\* original input when it is long enough.
AiStep(c) ==
    /\ pc[c] = "ai"
    /\ IF LongEnoughForAi(input_str[c])
       THEN /\ aiCalls' = [aiCalls EXCEPT ![c] = @ + 1]
            /\ aiArg' = [aiArg EXCEPT ![c] = input_str[c]]
            /\ steps' = [steps EXCEPT ![c] = Append(@, "ai")]
            /\ pc' = [pc EXCEPT ![c] = "ai_wait"]
       ELSE /\ pc' = [pc EXCEPT ![c] = "passthrough"]
            /\ UNCHANGED <<aiCalls, aiArg, steps>>
    /\ UNCHANGED outside
    /\ UNCHANGED <<COMPANY_TO_TICKER, input_str, cleaned, matches, retval, method,
                   raised, aiReply, answered>>

\* Line 274: len(ticker) <= 5
MaxAiTickerLen == 5

\* ValidAiTicker without the length test.
ValidAiTickerAnyLength(ticker) == ticker # <<>> /\ ticker # UNKNOWN

\* Line 274: ticker and ticker != "UNKNOWN" and len(ticker) <= 5
ValidAiTicker(ticker) ==
    ticker # <<>> /\ ticker # UNKNOWN /\ Len(ticker) <= MaxAiTickerLen

\* Lines 250-279, the try body of _ai_lookup_ticker on provider outcome o:
\* exc when the call or message.content[0].text raises, else the value.
AiLookupBody(o) ==
    IF o.kind # "text"
    THEN [exc |-> TRUE, val |-> None]
    ELSE LET ticker == Upper(Strip(o.text))
         IN  [exc |-> FALSE,
              val |-> IF ValidAiTicker(ticker) THEN ticker ELSE None]

\* _ai_lookup_ticker: lines 281-283 turn every Exception into None.
AiLookupTicker(o) ==
    LET r == AiLookupBody(o)
    IN  IF r.exc THEN [exc |-> FALSE, val |-> None] ELSE r

\* `if ai_ticker:`
Truthy(v) == v # None /\ v # <<>>

\* AiReturn keeping the ticker the provider found in the dictionary, under
\* the cleaned input, for the next call.
AiReturnCaches(c, o) ==
    /\ pc[c] = "ai_wait"
    /\ aiReply' = [aiReply EXCEPT ![c] = o]
    /\ answered' = answered \cup {<<aiArg[c], o>>}
    /\ LET r == AiLookupTicker(o)
       IN  IF ~r.exc /\ Truthy(r.val)
           THEN /\ Return(c, r.val, "ai")
                /\ COMPANY_TO_TICKER' = Append(COMPANY_TO_TICKER, <<cleaned[c], r.val>>)
           ELSE /\ pc' = [pc EXCEPT ![c] = "passthrough"]
                /\ UNCHANGED <<retval, method, COMPANY_TO_TICKER>>
    /\ UNCHANGED outside
    /\ UNCHANGED <<input_str, cleaned, matches, raised, steps, aiCalls, aiArg>>

\* AiReturn calling the provider again after a failure.
AiReturnRetries(c, o) ==
    /\ pc[c] = "ai_wait"
    /\ aiReply' = [aiReply EXCEPT ![c] = o]
    /\ answered' = answered \cup {<<aiArg[c], o>>}
    /\ LET r == AiLookupTicker(o)
       IN  IF ~r.exc /\ Truthy(r.val)
           THEN Return(c, r.val, "ai")
           ELSE /\ pc' = [pc EXCEPT ![c] = IF o.kind = "text" THEN "passthrough" ELSE "ai"]
                /\ UNCHANGED <<retval, method>>
    /\ UNCHANGED outside
    /\ UNCHANGED <<COMPANY_TO_TICKER, input_str, cleaned, matches, raised, steps,
                   aiCalls, aiArg>>

\* Lines 225-230: the provider call ends with outcome o; a truthy ai_ticker
\* is returned, anything else (None, or an exception caught at line 229)
\* goes on to the passthrough.
AiReturn(c, o) ==
    /\ pc[c] = "ai_wait"
    /\ aiReply' = [aiReply EXCEPT ![c] = o]
    /\ answered' = answered \cup {<<aiArg[c], o>>}
    /\ LET r == AiLookupTicker(o)
       IN  IF ~r.exc /\ Truthy(r.val)
           THEN Return(c, r.val, "ai")
           ELSE /\ pc' = [pc EXCEPT ![c] = "passthrough"]
                /\ UNCHANGED <<retval, method>>
    /\ UNCHANGED outside
    /\ UNCHANGED <<COMPANY_TO_TICKER, input_str, cleaned, matches, raised, steps,
                   aiCalls, aiArg>>

\* PassthroughValue without .upper().
PassthroughValueNoUpper(s) == Strip(s)

\* Line 233: result = input_str.upper().strip()
PassthroughValue(s) == Strip(Upper(s))

\* Lines 233-236: the passthrough.
Passthrough(c) ==
    /\ pc[c] = "passthrough"
    /\ steps' = [steps EXCEPT ![c] = Append(@, "passthrough")]
    /\ Return(c, PassthroughValue(input_str[c]), "passthrough")
    /\ UNCHANGED outside
    /\ UNCHANGED <<COMPANY_TO_TICKER, input_str, cleaned, matches, raised, aiCalls,
                   aiArg, aiReply, answered>>

\* The steps of one call after it is made.
Resolve(c) ==
    \/ Exact(c)
    \/ Fuzzy(c)
    \/ AiStep(c)
    \/ \E o \in AiOutcomes : AiReturn(c, o)
    \/ Passthrough(c)

\* One call of resolve_ticker, on any input, with any provider outcome.
Next ==
    \/ \E s \in Inputs : Call(1, s)
    \/ Resolve(1)

Spec == Init /\ [][Next]_vars

\* The provider is a function of its argument: it answers a name it was
\* asked before as it did then.
Deterministic(c, o) == \A p \in answered : p[1] = aiArg[c] => p[2] = o

ResolveDet(c) ==
    \/ Exact(c)
    \/ Fuzzy(c)
    \/ AiStep(c)
    \/ \E o \in AiOutcomes : Deterministic(c, o) /\ AiReturn(c, o)
    \/ Passthrough(c)

\* Two calls of resolve_ticker on the same input, one after the other, with
\* a deterministic provider.
NextDet ==
    \/ \E s \in Inputs : Call(1, s)
    \/ pc[1] = "done" /\ Call(2, input_str[1])
    \/ \E c \in Calls : ResolveDet(c)

SpecDet == Init /\ [][NextDet]_vars

(***************************************************************************)
(* get_company_name, the reverse lookup (lines 285-300).                   *)
(***************************************************************************)

\* The variables of the calls of resolve_ticker.
resolverVars ==
    <<pc, input_str, cleaned, matches, retval, method, raised, steps, aiCalls,
      aiArg, aiReply, answered>>

\* get_company_name returning symbol.title() for name.title().
GetCompanyNameOfSymbol(d, ticker) ==
    LET ticker_upper == Upper(ticker)
        hits == {i \in 1..Len(d) : d[i][2] = ticker_upper}
    IN  IF hits = {} THEN None ELSE Title(d[MinOf(hits)][2])

\* get_company_name returning the name of the last item with the symbol.
GetCompanyNameOfLast(d, ticker) ==
    LET ticker_upper == Upper(ticker)
        hits == {i \in 1..Len(d) : d[i][2] = ticker_upper}
    IN  IF hits = {} THEN None
        ELSE Title(d[CHOOSE i \in hits : \A j \in hits : j <= i][1])

\* Lines 296-300: the title-cased name of the first item, in the order of
\* COMPANY_TO_TICKER.items(), whose symbol is ticker.upper(); None without one.
GetCompanyName(d, ticker) ==
    LET ticker_upper == Upper(ticker)
        hits == {i \in 1..Len(d) : d[i][2] = ticker_upper}
    IN  IF hits = {} THEN None ELSE Title(d[MinOf(hits)][1])

\* Arguments of get_company_name in the model: every canonical ticker, and
\* "googl", "Msft", "ZZZZ", "".
LookupTickers ==
    Tickers \cup {<<103, 111, 111, 103, 108>>, <<77, 115, 102, 116>>, <<90, 90, 90, 90>>, <<>>}

\* A caller calls get_company_name(t); the call runs to its return.
GetCompanyNameCall(t) ==
    /\ get_company_name.pc = "idle"
    /\ get_company_name' =
           [pc |-> "done", ticker |-> t, retval |-> GetCompanyName(COMPANY_TO_TICKER, t)]
    /\ UNCHANGED <<COMPANY_TO_TICKER, resolverVars, beyondTicker>>

\* resolve_ticker(get_company_name(t)): the name found is resolved.
CallOnCompanyName(c) ==
    /\ get_company_name.pc = "done"
    /\ IsStr(get_company_name.retval)
    /\ Call(c, get_company_name.retval)

\* A reverse lookup and a call of resolve_ticker, one after the other: the
\* name looked up is resolved, or a test input is resolved and a ticker
\* looked up afterwards.
NextLookup ==
    \/ \E t \in LookupTickers : pc[1] \in {"idle", "done"} /\ GetCompanyNameCall(t)
    \/ CallOnCompanyName(1)
    \/ \E s \in TestWords : get_company_name.pc = "idle" /\ Call(1, s)
    \/ Resolve(1)

SpecLookup == Init /\ [][NextLookup]_vars

(***************************************************************************)
(* resolve_ticker as a function, and calls running concurrently.           *)
(***************************************************************************)

\* Lines 222-236 of resolve_ticker(s) with provider outcome o: the AI step
\* and the passthrough.
AfterFuzzyMiss(s, o) ==
    IF LongEnoughForAi(s) /\ Truthy(AiLookupTicker(o).val)
    THEN [retval |-> AiLookupTicker(o).val, method |-> "ai", aiCalls |-> 1]
    ELSE [retval |-> PassthroughValue(s), method |-> "passthrough",
          aiCalls |-> IF LongEnoughForAi(s) THEN 1 ELSE 0]

\* Lines 215-236 on the list m of get_close_matches.
AfterExactMiss(d, s, o, m) ==
    IF m # <<>>
    THEN [retval |-> DictGet(d, m[1]), method |-> "fuzzy", aiCalls |-> 0]
    ELSE AfterFuzzyMiss(s, o)

\* resolve_ticker(s) run from its call to its return, alone, with dict d
\* and the provider answering o if asked: the value returned, the step that
\* returned it and the number of provider calls.
ResolveTicker(d, s, o) ==
    IF DictHas(d, Clean(s))
    THEN [retval |-> DictGet(d, Clean(s)), method |-> "exact", aiCalls |-> 0]
    ELSE AfterExactMiss(d, s, o, GetCloseMatches(Clean(s), DictKeys(d)))

\* Inputs of the concurrent calls: "google", "gogle", "AAPL", "ZZ",
\* "acme corp".
ConcInputs == {<<103, 111, 111, 103, 108, 101>>, W_gogle, W_AAPL, W_ZZ, W_acme}

\* Two requests resolve at the same time: their calls start in any order
\* and their steps interleave; a provider call stays in flight (ai_wait)
\* while the other call takes steps.
NextConc ==
    \/ \E c \in Calls : \E s \in ConcInputs : Call(c, s)
    \/ \E c \in Calls : Resolve(c)

SpecConc == Init /\ [][NextConc]_vars

(***************************************************************************)
(* The same pairs inserted in another order.  COMPANY_TO_TICKER.keys()     *)
(* hands the aliases to get_close_matches in insertion order (line 214).   *)
(***************************************************************************)

\* d[k+1], d[k+2], ..., d[Len(d)], d[1], ..., d[k]
Rotated(d, k) == [n \in 1..Len(d) |-> d[((n + k - 1) % Len(d)) + 1]]

\* d from its last item to its first.
Reversed(d) == [n \in 1..Len(d) |-> d[Len(d) + 1 - n]]

\* The dictionaries of the model start at most this many items into the
\* display.
MaxRotate == 3

\* Dictionaries that hold the pairs of COMPANY_TO_TICKER in other insertion
\* orders: started a few items later, each from first to last and from last
\* to first, so that any two aliases come in both orders.
Orders ==
    UNION {{Rotated(COMPANY_TO_TICKER_BUILT, k),
            Reversed(Rotated(COMPANY_TO_TICKER_BUILT, k))} : k \in 0..MaxRotate}

W_am == <<97, 109>>
W_ar == <<97, 114>>
W_im == <<105, 109>>
W_gme == <<103, 109, 101>>
W_arkm == <<97, 114, 107, 109>>
W_shotify == <<115, 104, 111, 116, 105, 102, 121>>

\* Inputs for which two aliases share the best score ("am": "amd" and
\* "arm"; "ar": "arm" and "ark"; "im": "ibm" and "iwm"; "gem" and "gme":
\* "ge" and "gm"; "arkm": "arm" and "ark"; "shotify": "spotify" and
\* "shopify"), and one input for each other step.
OrderInputs ==
    {W_am, W_ar, W_im, W_gem, W_gme, W_arkm, W_shotify,
     <<103, 111, 111, 103, 108, 101>>, W_gogle, W_ZZ, W_acme}

\* The state of the module after import, with the dictionary in any of the
\* orders.
InitOrder ==
    /\ COMPANY_TO_TICKER \in Orders
    /\ pc = [c \in Calls |-> "idle"]
    /\ input_str = [c \in Calls |-> <<>>]
    /\ cleaned = [c \in Calls |-> <<>>]
    /\ matches = [c \in Calls |-> <<>>]
    /\ retval = [c \in Calls |-> None]
    /\ method = [c \in Calls |-> "none"]
    /\ raised = [c \in Calls |-> FALSE]
    /\ steps = [c \in Calls |-> <<>>]
    /\ aiCalls = [c \in Calls |-> 0]
    /\ aiArg = [c \in Calls |-> <<>>]
    /\ aiReply = [c \in Calls |-> NoReply]
    /\ answered = {}
    /\ get_company_name = [pc |-> "idle", ticker |-> <<>>, retval |-> None]
    /\ extract_rating = [pc |-> "idle", analysis |-> <<>>, retval |-> None]
    /\ analysis_service = "unset"
    /\ analyze_stock = [pc |-> "idle", query |-> <<>>, ticker |-> None, status_code |-> 0]
    /\ analyze = [pc |-> "idle", ticker |-> None]
    /\ get_stock_data = [pc |-> "idle", ticker |-> "", provider |-> NoProvider, retval |-> None]
    /\ fetch_stock_data =
           [pc |-> "idle", ticker |-> "", news |-> NoNews, retval |-> None, raised |-> FALSE]

NextOrder ==
    \/ \E s \in OrderInputs : Call(1, s)
    \/ Resolve(1)

SpecOrder == InitOrder /\ [][NextOrder]_vars

(***************************************************************************)
(* AnalysisService._extract_rating (analysis_service.py, lines 224-243).   *)
(***************************************************************************)

\* The state of ticker_service.py.
tickerVars == <<COMPANY_TO_TICKER, resolverVars, get_company_name>>

\* The state of routes.py, with the call of analyze it makes.
routeVars == <<analysis_service, analyze_stock, analyze>>

\* The state of data_service.py.
dataVars == <<get_stock_data, fetch_stock_data>>

\* sub in s
Contains(s, sub) ==
    \E i \in 0..(Len(s) - Len(sub)) : SubSeq(s, i + 1, i + Len(sub)) = sub

\* s[i:].count(sub) for a non-empty sub: the occurrences are counted from
\* the left and do not overlap.
RECURSIVE CountFrom(_, _, _)
CountFrom(s, sub, i) ==
    IF i + Len(sub) > Len(s) THEN 0
    ELSE IF SubSeq(s, i + 1, i + Len(sub)) = sub
         THEN 1 + CountFrom(s, sub, i + Len(sub))
         ELSE CountFrom(s, sub, i + 1)

\* s.count(sub)
Count(s, sub) == CountFrom(s, sub, 0)

BEARISH == <<66, 69, 65, 82, 73, 83, 72>>  \* "BEARISH"
NEUTRAL == <<78, 69, 85, 84, 82, 65, 76>>  \* "NEUTRAL"

VerdictBearish == <<118, 101, 114, 100, 105, 99, 116, 58, 32, 98, 101, 97, 114, 105, 115, 104>>  \* "verdict: bearish"
BoldBearish == <<42, 42, 98, 101, 97, 114, 105, 115, 104, 42, 42>>  \* "**bearish**"
VerdictNeutral == <<118, 101, 114, 100, 105, 99, 116, 58, 32, 110, 101, 117, 116, 114, 97, 108>>  \* "verdict: neutral"
BoldNeutral == <<42, 42, 110, 101, 117, 116, 114, 97, 108, 42, 42>>  \* "**neutral**"
WordBearish == <<98, 101, 97, 114, 105, 115, 104>>  \* "bearish"
WordNeutral == <<110, 101, 117, 116, 114, 97, 108>>  \* "neutral"

\* _extract_rating testing the neutral markers before the bearish ones.
ExtractRatingNeutralFirst(analysis) ==
    LET analysis_lower == Lower(analysis)
        bearish_count == Count(analysis_lower, WordBearish)
        neutral_count == Count(analysis_lower, WordNeutral)
    IN  IF Contains(analysis_lower, VerdictNeutral) \/ Contains(analysis_lower, BoldNeutral)
        THEN NEUTRAL
        ELSE IF Contains(analysis_lower, VerdictBearish)
                    \/ Contains(analysis_lower, BoldBearish)
        THEN BEARISH
        ELSE IF bearish_count > neutral_count THEN BEARISH
        ELSE IF neutral_count > 0 THEN NEUTRAL
        ELSE NEUTRAL

\* _extract_rating with >= for > between the counts.
ExtractRatingTieBearish(analysis) ==
    LET analysis_lower == Lower(analysis)
        bearish_count == Count(analysis_lower, WordBearish)
        neutral_count == Count(analysis_lower, WordNeutral)
    IN  IF Contains(analysis_lower, VerdictBearish) \/ Contains(analysis_lower, BoldBearish)
        THEN BEARISH
        ELSE IF Contains(analysis_lower, VerdictNeutral)
                    \/ Contains(analysis_lower, BoldNeutral)
        THEN NEUTRAL
        ELSE IF bearish_count >= neutral_count THEN BEARISH
        ELSE IF neutral_count > 0 THEN NEUTRAL
        ELSE NEUTRAL

\* _extract_rating whose default is BEARISH.
ExtractRatingDefaultBearish(analysis) ==
    LET analysis_lower == Lower(analysis)
        bearish_count == Count(analysis_lower, WordBearish)
        neutral_count == Count(analysis_lower, WordNeutral)
    IN  IF Contains(analysis_lower, VerdictBearish) \/ Contains(analysis_lower, BoldBearish)
        THEN BEARISH
        ELSE IF Contains(analysis_lower, VerdictNeutral)
                    \/ Contains(analysis_lower, BoldNeutral)
        THEN NEUTRAL
        ELSE IF bearish_count > neutral_count THEN BEARISH
        ELSE IF neutral_count > 0 THEN NEUTRAL
        ELSE BEARISH

\* Lines 226-243.
ExtractRating(analysis) ==
    LET analysis_lower == Lower(analysis)
        bearish_count == Count(analysis_lower, WordBearish)
        neutral_count == Count(analysis_lower, WordNeutral)
    IN  IF Contains(analysis_lower, VerdictBearish) \/ Contains(analysis_lower, BoldBearish)
        THEN BEARISH
        ELSE IF Contains(analysis_lower, VerdictNeutral)
                    \/ Contains(analysis_lower, BoldNeutral)
        THEN NEUTRAL
        ELSE IF bearish_count > neutral_count THEN BEARISH
        ELSE IF neutral_count > 0 THEN NEUTRAL
        ELSE NEUTRAL

\* Most fragments in an analysis text of the model.
MaxFrags == 3

\* What the texts are made of: the markers and the two words in the cases
\* a model writes them in, "**" to build a bold marker around a word, and
\* other prose.
Fragments ==
    {<<86, 69, 82, 68, 73, 67, 84, 58, 32, 66, 69, 65, 82, 73, 83, 72>>,  \* "VERDICT: BEARISH"
     <<42, 42, 66, 101, 97, 114, 105, 115, 104, 42, 42>>,  \* "**Bearish**"
     <<86, 101, 114, 100, 105, 99, 116, 58, 32, 78, 101, 117, 116, 114, 97, 108>>,  \* "Verdict: Neutral"
     <<42, 42, 78, 69, 85, 84, 82, 65, 76, 42, 42>>,  \* "**NEUTRAL**"
     <<66, 101, 97, 114, 105, 115, 104>>,  \* "Bearish"
     <<110, 101, 117, 116, 114, 97, 108>>,  \* "neutral"
     <<42, 42>>,  \* "**"
     <<32, 114, 105, 115, 107, 46, 32>>}  \* " risk. "

\* fs[1] + ... + fs[n]
RECURSIVE Joined(_, _)
Joined(fs, n) == IF n = 0 THEN <<>> ELSE Joined(fs, n - 1) \o fs[n]

\* The analysis texts of the model: up to MaxFrags fragments in a row.
Texts == UNION {{Joined(fs, n) : fs \in [1..n -> Fragments]} : n \in 0..MaxFrags}

\* analyze calls self._extract_rating(t); the call runs to its return.
ExtractRatingCall(t) ==
    /\ extract_rating.pc = "idle"
    /\ extract_rating' = [pc |-> "done", analysis |-> t, retval |-> ExtractRating(t)]
    /\ UNCHANGED <<tickerVars, routeVars, dataVars>>

NextRating == \E t \in Texts : ExtractRatingCall(t)

SpecRating == Init /\ [][NextRating]_vars

(***************************************************************************)
(* routes.py: the initialisation of the module (lines 13-21) and           *)
(* analyze_stock (lines 43-126) up to its call of analyze; the call and    *)
(* the response follow analysis_service.analyze below.                     *)
(***************************************************************************)

\* Lines 14-21, when routes.py is imported: analysis_service is the
\* AnalysisService built, or None when AnalysisService() raises.
ImportRoutes(ok) ==
    /\ analysis_service = "unset"
    /\ analysis_service' = IF ok THEN "AnalysisService" ELSE "None"
    /\ UNCHANGED <<tickerVars, extract_rating, analyze_stock, analyze, dataVars>>

\* Line 62: len(ticker) > 10
MaxTickerLen == 10

\* The test of line 62 without the length.
RejectsTickerEmptyOnly(ticker) == ticker = <<>>

\* Line 62: not ticker or len(ticker) > 10
RejectsTicker(ticker) == ticker = <<>> \/ Len(ticker) > MaxTickerLen

\* The queries of the model: "", two spaces, "google", "AAPL", "ZZ",
\* "SomeObscureStartupXYZ", and a word of 10 and one of 11 letters.
RouteQueries ==
    {<<>>,
     <<32, 32>>,  \* "  "
     <<103, 111, 111, 103, 108, 101>>,  \* "google"
     W_AAPL, W_ZZ, W_Obscure,
     <<97, 98, 99, 100, 101, 102, 103, 104, 105, 106>>,  \* "abcdefghij"
     <<97, 98, 99, 100, 101, 102, 103, 104, 105, 106, 107>>}  \* "abcdefghijk"

\* Lines 53-57: a request enters analyze_stock(query); without the service
\* it is answered 503.
AnalyzeStockEnter(q) ==
    /\ analysis_service # "unset"
    /\ analyze_stock.pc = "idle"
    /\ analyze_stock' =
           IF analysis_service = "None"
           THEN [analyze_stock EXCEPT !.pc = "done", !.query = q, !.status_code = 503]
           ELSE [analyze_stock EXCEPT !.pc = "resolve", !.query = q]
    /\ UNCHANGED <<tickerVars, extract_rating, analysis_service, analyze, dataVars>>

\* Line 60: ticker_service.resolve_ticker(query) is called.
AnalyzeStockResolve ==
    /\ analyze_stock.pc = "resolve"
    /\ Call(1, analyze_stock.query)

\* Lines 60-73, once resolve_ticker has returned: the ticker is rejected
\* with 400 or handed to analysis_service.analyze.  An exception leaving
\* resolve_ticker is outside every try: the framework answers 500.
AnalyzeStockValidate ==
    /\ analyze_stock.pc = "resolve"
    /\ pc[1] = "done"
    /\ IF raised[1]
       THEN /\ analyze_stock' = [analyze_stock EXCEPT !.pc = "done", !.status_code = 500]
            /\ UNCHANGED analyze
       ELSE IF RejectsTicker(retval[1])
       THEN /\ analyze_stock' =
                   [analyze_stock EXCEPT !.pc = "done", !.ticker = retval[1],
                                         !.status_code = 400]
            /\ UNCHANGED analyze
       ELSE /\ analyze_stock' = [analyze_stock EXCEPT !.pc = "analyze", !.ticker = retval[1]]
            /\ analyze' = [pc |-> "called", ticker |-> retval[1]]
    /\ UNCHANGED <<tickerVars, extract_rating, analysis_service, dataVars>>

(***************************************************************************)
(* DataService.get_stock_data (data_service.py, lines 16-190).  The model  *)
(* follows which fields the provider supplies and which of the supplied    *)
(* numbers are zero: that decides every branch and every exception of the  *)
(* function.  A value of the result is written as a string: a str of the   *)
(* code ("N/A", "Unknown", the ticker), or the expression that computes    *)
(* the number.                                                             *)
(***************************************************************************)

\* The keys of stock.info that decide the result.  (targetHighPrice,
\* targetLowPrice, targetMedianPrice and numberOfAnalystOpinions, lines
\* 118-121, are only logged.)
InfoKeys ==
    {"previousClose", "fiftyTwoWeekHigh", "fiftyTwoWeekLow", "marketCap", "shortName",
     "trailingPE", "forwardPE", "averageVolume", "beta", "shortPercentOfFloat",
     "debtToEquity", "profitMargins", "revenueGrowth", "earningsGrowth",
     "currentRatio", "targetMeanPrice", "recommendationKey"}

\* The attributes of stock.fast_info that are read; one that is not
\* supplied is None.
FastKeys == {"last_price", "last_volume"}

\* The supplied numbers whose being zero changes the path taken.
ZeroKeys == {"previousClose", "fiftyTwoWeekHigh", "averageVolume", "last_price", "last_volume"}

\* The size of the market cap, which chooses the branch of lines 54-61: at
\* least 10^12, at least 10^9, at least 10^6, or less.
CapSizes == {"T", "B", "M", "small"}

\* Most fields missing from, or most fields present in, what the provider
\* supplies.
MaxMissing == 2

\* The subsets of S of at most k elements.
RECURSIVE AtMost(_, _)
AtMost(S, k) ==
    IF k = 0 THEN {{}}
    ELSE LET smaller == AtMost(S, k - 1)
         IN  smaller \cup {x \cup {e} : x \in smaller, e \in S}

\* The sets of fields supplied in the model: all but a few, or only a few.
Supplies ==
    LET few == AtMost(InfoKeys \cup FastKeys, MaxMissing)
    IN  few \cup {(InfoKeys \cup FastKeys) \ m : m \in few}

\* What the provider does in the model when it supplies the fields s: any
\* of the supplied numbers of ZeroKeys may be zero, and only a supplied
\* market cap is a million or more.
Provided(s) ==
    {[supplied |-> s, zeros |-> z, cap |-> c, fails |-> FALSE] :
        z \in SUBSET (ZeroKeys \cap s),
        c \in IF "marketCap" \in s THEN CapSizes ELSE {"small"}}

\* yf.Ticker, stock.info or stock.fast_info raises (lines 29-31): nothing
\* is supplied.
Failing == [supplied |-> {}, zeros |-> {}, cap |-> "small", fails |-> TRUE]

\* The providers of the model that supply the fields s; the one that fails
\* supplies nothing.
Providers(s) == IF s = {} THEN Provided(s) \cup {Failing} ELSE Provided(s)

NA == "N/A"

\* info.get(key, default)
InfoGet(p, key, default) == IF key \in p.supplied THEN key ELSE default

\* Lines 67-69 and alike: x = info.get(key, 'N/A'), rounded when not 'N/A'.
RoundedOrNA(p, key, expr) == IF key \in p.supplied THEN expr ELSE NA

\* An exception is raised inside the try of lines 28-161:
\*   lines 29-31, the provider itself raises;
\*   line 37, round(None, 2) without a last price;
\*   line 50, division by a 52-week high of zero;
\*   line 79, None / avg_volume without a last volume;
\*   line 128, division by a current price of zero.
Raises(p) ==
    \/ p.fails
    \/ "last_price" \notin p.supplied
    \/ "fiftyTwoWeekHigh" \in p.zeros
    \/ /\ "last_volume" \notin p.supplied
       /\ "averageVolume" \in p.supplied
       /\ "averageVolume" \notin p.zeros
    \/ "targetMeanPrice" \in p.supplied /\ "last_price" \in p.zeros

\* The keys of the record get_stock_data returns (lines 137-161, and the
\* same keys at lines 166-190).
StockFields ==
    {"company_name", "current_price", "price_change", "price_change_pct", "prev_close",
     "week_52_high", "week_52_low", "pct_from_high", "market_cap", "pe_ratio",
     "forward_pe", "volume", "volume_vs_avg", "beta", "short_percent",
     "debt_to_equity", "profit_margin", "revenue_growth", "earnings_growth",
     "current_ratio", "target_price", "target_upside", "recommendation"}

\* Lines 41-43: prev_close is the previous close or, without one, the
\* current price; the change in percent is 0 when prev_close is zero.
PrevCloseIsZero(p) ==
    IF "previousClose" \in p.supplied
    THEN "previousClose" \in p.zeros
    ELSE "last_price" \in p.zeros

\* Lines 77-79: avg_volume is the average volume or, without one, the last
\* volume (None when that is not supplied either); the ratio is the
\* literal 100 when avg_volume is zero or None.
AvgVolumeIsFalsy(p) ==
    IF "averageVolume" \in p.supplied
    THEN "averageVolume" \in p.zeros
    ELSE "last_volume" \notin p.supplied \/ "last_volume" \in p.zeros

\* Lines 53-61: market_cap is the market cap or, without one, 0; it prints
\* in trillions, billions or millions, or as it is when less than a million.
MarketCapStr(p) ==
    IF p.cap = "T" THEN "$round(marketCap / 1_000_000_000_000, 2)T"
    ELSE IF p.cap = "B" THEN "$round(marketCap / 1_000_000_000, 2)B"
    ELSE IF p.cap = "M" THEN "$round(marketCap / 1_000_000, 2)M"
    ELSE IF "marketCap" \in p.supplied THEN "$marketCap"
    ELSE "$0"

\* The body of the try, lines 29-161, when nothing is raised.
StockRecord(ticker, p) ==
    [company_name     |-> InfoGet(p, "shortName", ticker),
     current_price    |-> "round(last_price, 2)",
     price_change     |-> "round(current_price - prev_close, 2)",
     price_change_pct |-> IF PrevCloseIsZero(p) THEN "0"
                          ELSE "round(price_change / prev_close * 100, 2)",
     prev_close       |-> InfoGet(p, "previousClose", "round(last_price, 2)"),
     week_52_high     |-> InfoGet(p, "fiftyTwoWeekHigh", NA),
     week_52_low      |-> InfoGet(p, "fiftyTwoWeekLow", NA),
     pct_from_high    |-> RoundedOrNA(p, "fiftyTwoWeekHigh",
                              "round((current_price - week_52_high) / week_52_high * 100, 1)"),
     market_cap       |-> MarketCapStr(p),
     pe_ratio         |-> RoundedOrNA(p, "trailingPE", "round(trailingPE, 2)"),
     forward_pe       |-> RoundedOrNA(p, "forwardPE", "round(forwardPE, 2)"),
     volume           |-> IF "last_volume" \in p.supplied THEN "last_volume" ELSE "None",
     volume_vs_avg    |-> IF AvgVolumeIsFalsy(p) THEN "100"
                          ELSE "round(volume / avg_volume * 100, 0)",
     beta             |-> RoundedOrNA(p, "beta", "round(beta, 2)"),
     short_percent    |-> RoundedOrNA(p, "shortPercentOfFloat", "round(shortPercentOfFloat * 100, 2)"),
     debt_to_equity   |-> RoundedOrNA(p, "debtToEquity", "round(debtToEquity, 2)"),
     profit_margin    |-> RoundedOrNA(p, "profitMargins", "round(profitMargins * 100, 2)"),
     revenue_growth   |-> RoundedOrNA(p, "revenueGrowth", "round(revenueGrowth * 100, 2)"),
     earnings_growth  |-> RoundedOrNA(p, "earningsGrowth", "round(earningsGrowth * 100, 2)"),
     current_ratio    |-> RoundedOrNA(p, "currentRatio", "round(currentRatio, 2)"),
     target_price     |-> RoundedOrNA(p, "targetMeanPrice", "round(targetMeanPrice, 2)"),
     target_upside    |-> RoundedOrNA(p, "targetMeanPrice",
                              "round((target_price - current_price) / current_price * 100, 1)"),
     recommendation   |-> InfoGet(p, "recommendationKey", NA)]

\* The except branch, lines 163-190.
StockFallback(ticker) ==
    [f \in StockFields |->
        IF f = "company_name" THEN ticker
        ELSE IF f = "current_price" THEN "Unknown"
        ELSE NA]

\* get_stock_data(ticker) with a provider that behaves as p
GetStockData(ticker, p) ==
    IF Raises(p) THEN StockFallback(ticker) ELSE StockRecord(ticker, p)

\* The tickers get_stock_data is called with in the model.
DataTickers == {"AAPL", "ZZZZ"}

\* One call of get_stock_data, with any ticker and any provider of the
\* model: the call returns its record.
GetStockDataCall ==
    /\ get_stock_data.pc = "idle"
    /\ \E ticker \in DataTickers, s \in Supplies : \E p \in Providers(s) :
          get_stock_data' = [pc |-> "done", ticker |-> ticker, provider |-> p,
                             retval |-> GetStockData(ticker, p)]
    /\ UNCHANGED <<tickerVars, extract_rating, routeVars, fetch_stock_data>>

NextData == GetStockDataCall

SpecData == Init /\ [][NextData]_vars

(***************************************************************************)
(* DataService.get_news_with_sources and fetch_stock_data                  *)
(* (data_service.py, lines 192-274).                                       *)
(***************************************************************************)

\* r.get(key, default) on an item r of the news provider, a record of the
\* keys it holds.
ItemGet(r, key, default) == IF key \in DOMAIN r THEN r[key] ELSE default

\* Items the news provider returns in the model: a complete one, one
\* without title and source, one with a date only, and one whose title is
\* None.
FullItem == [title |-> "Headline", source |-> "Reuters", url |-> "https://x", date |-> "2025"]
BareItem == [url |-> "https://y", date |-> "2025"]
DateItem == [date |-> "2024"]
UntitledItem == [title |-> "None", source |-> "Reuters", url |-> "https://z", date |-> "2025"]

RawItems == {FullItem, BareItem, DateItem, UntitledItem}

\* Most items the news provider returns.
MaxNews == 2

\* What the news provider does in the model: it yields some items, and
\* then ends or raises (DDGS(), ddgs.news or the iteration; with no item
\* yielded the exception came before the first).
NewsOutcomes ==
    {[items |-> i, fails |-> f] :
        i \in UNION {[1..n -> RawItems] : n \in 0..MaxNews}, f \in BOOLEAN}

\* Lines 208-213: the dict appended for item r.
NewsDict(r) ==
    [title  |-> ItemGet(r, "title", ""),
     source |-> ItemGet(r, "source", "Unknown"),
     url    |-> ItemGet(r, "url", ""),
     date   |-> ItemGet(r, "date", "")]

\* Lines 216-221: the dict appended after an exception.
NoNewsFound == [title |-> "No recent news found", source |-> "N/A", url |-> "", date |-> ""]

\* GetNewsWithSources whose dict after an exception has a title only.
NewsAfterTitleOnly(news) ==
    LET collected == [n \in 1..Len(news.items) |-> NewsDict(news.items[n])]
    IN  IF news.fails THEN Append(collected, [title |-> "No recent news found"])
        ELSE collected

\* get_news_with_sources(ticker) with a news provider that behaves as news:
\* the dicts of the items yielded, and NoNewsFound after an exception.
GetNewsWithSources(news) ==
    LET collected == [n \in 1..Len(news.items) |-> NewsDict(news.items[n])]
    IN  IF news.fails THEN Append(collected, NoNewsFound) ELSE collected

\* The keys of stock_data that lines 250-272 read.
StockKeysRead == StockFields \ {"volume"}

\* The keys of an article that lines 245-248 read.
ArticleKeysRead == {"title", "source"}

\* Lines 243-248 or the subscripts of lines 250-272 raise KeyError.
FetchRaises(stock_data, news_data) ==
    \/ ~(StockKeysRead \subseteq DOMAIN stock_data)
    \/ \E n \in 1..Len(news_data) : ~(ArticleKeysRead \subseteq DOMAIN news_data[n])

\* Lines 243-248: the lines of the prompt, i. "title" - source, which
\* "\n".join puts together.
NewsFormatted(news_data) ==
    [n \in 1..Len(news_data) |->
        [i |-> n, title |-> news_data[n].title, source |-> news_data[n].source]]

\* The keys of the dict fetch_stock_data returns, lines 250-274.
FetchFields == (StockKeysRead \ {"current_price"}) \cup {"price", "news", "news_sources"}

\* Lines 250-274: the dict returned; "price" is current_price, the other
\* keys of stock_data keep their names.
FetchResult(stock_data, news_data) ==
    [f \in FetchFields |->
        IF f = "price" THEN stock_data["current_price"]
        ELSE IF f = "news" THEN NewsFormatted(news_data)
        ELSE IF f = "news_sources" THEN news_data
        ELSE stock_data[f]]

\* The keys of `data` that AnalysisService.analyze puts into
\* USER_PROMPT_TEMPLATE (analysis_service.py, lines 134-168).
PromptKeys ==
    {"price_change", "company_name", "price", "price_change_pct", "prev_close",
     "week_52_high", "week_52_low", "pct_from_high", "market_cap", "pe_ratio",
     "forward_pe", "volume_vs_avg", "beta", "short_percent", "debt_to_equity",
     "current_ratio", "profit_margin", "revenue_growth", "earnings_growth",
     "target_price", "target_upside", "recommendation", "news"}

\* The keys of `data` copied into "metrics" (analysis_service.py, lines
\* 193-213).
MetricKeys ==
    {"price", "price_change", "price_change_pct", "prev_close", "week_52_high",
     "week_52_low", "pct_from_high", "market_cap", "pe_ratio", "forward_pe",
     "volume_vs_avg", "beta", "short_percent", "debt_to_equity", "current_ratio",
     "profit_margin", "revenue_growth", "earnings_growth", "target_price",
     "target_upside", "recommendation"}

\* Every key of `data` that analyze reads (lines 134-215).
AnalyzeReads == PromptKeys \cup MetricKeys \cup {"company_name", "news_sources"}

\* The market-data providers of the calls of fetch_stock_data: one that
\* supplies everything, one without a market cap, one without a last
\* price, one that supplies nothing, and one that raises.
FetchProviders ==
    {[supplied |-> (InfoKeys \cup FastKeys) \ m, zeros |-> {}, cap |-> c, fails |-> FALSE] :
        m \in {{}, {"last_price"}}, c \in {"B"}}
    \cup {[supplied |-> (InfoKeys \cup FastKeys) \ {"marketCap"}, zeros |-> {},
           cap |-> "small", fails |-> FALSE],
          NoProvider,
          [supplied |-> {}, zeros |-> {}, cap |-> "small", fails |-> TRUE]}

\* Line 239: fetch_stock_data(ticker) is entered and calls get_stock_data,
\* which waits for the market-data provider and returns its dict;
\* fetch_stock_data has not returned yet.
FetchGetStockData ==
    /\ fetch_stock_data.pc = "idle"
    /\ get_stock_data.pc = "idle"
    /\ \E ticker \in DataTickers, p \in FetchProviders :
          get_stock_data' = [pc |-> "done", ticker |-> ticker, provider |-> p,
                             retval |-> GetStockData(ticker, p)]
    /\ UNCHANGED <<tickerVars, extract_rating, routeVars, fetch_stock_data>>

\* Lines 240-274, once get_stock_data has returned: get_news_with_sources
\* waits for the news provider, and the dict is returned or KeyError is
\* raised.
FetchStockDataCall ==
    /\ fetch_stock_data.pc = "idle"
    /\ get_stock_data.pc = "done"
    /\ \E news \in NewsOutcomes :
          LET ticker == get_stock_data.ticker
              stock_data == get_stock_data.retval
              news_data == GetNewsWithSources(news)
          IN  fetch_stock_data' =
                  IF FetchRaises(stock_data, news_data)
                  THEN [pc |-> "done", ticker |-> ticker, news |-> news,
                        retval |-> None, raised |-> TRUE]
                  ELSE [pc |-> "done", ticker |-> ticker, news |-> news,
                        retval |-> FetchResult(stock_data, news_data),
                        raised |-> FALSE]
    /\ UNCHANGED <<tickerVars, extract_rating, routeVars, get_stock_data>>

NextFetch == FetchGetStockData \/ FetchStockDataCall

SpecFetch == Init /\ [][NextFetch]_vars

(***************************************************************************)
(* AnalysisService.analyze (analysis_service.py, lines 119-222), and the   *)
(* whole request: analyze_stock with the calls it makes.                   *)
(***************************************************************************)

\* The news outcomes of the calls of analyze: no item, a complete one, one
\* whose title is None, and an exception.
AnalyzeNews ==
    {[items |-> <<>>, fails |-> FALSE],
     [items |-> <<FullItem>>, fails |-> FALSE],
     [items |-> <<UntitledItem>>, fails |-> FALSE],
     [items |-> <<>>, fails |-> TRUE]}

\* Lines 133-139: float(data["price_change"]) raises on "N/A", and the
\* direction is then empty and the change printed as it is; of a number
\* the sign and the absolute value are printed.
PriceChange(data) ==
    IF data["price_change"] = NA
    THEN [price_change_direction |-> "", abs_price_change |-> NA]
    ELSE [price_change_direction |-> "+ if price_change >= 0 else -",
          abs_price_change |-> "abs(price_change)"]

\* Lines 142-168: what USER_PROMPT_TEMPLATE.format is given.
UserMessage(ticker, data) ==
    [ticker |-> ticker,
     price_change |-> PriceChange(data),
     fields |-> [k \in PromptKeys \ {"price_change"} |-> data[k]]]

\* The analysis texts the provider gives in the model.
AnalyzeTexts ==
    {<<86, 69, 82, 68, 73, 67, 84, 58, 32, 66, 69, 65, 82, 73, 83, 72>>,  \* "VERDICT: BEARISH"
     <<86, 101, 114, 100, 105, 99, 116, 58, 32, 78, 101, 117, 116, 114, 97, 108>>,  \* "Verdict: Neutral"
     <<32, 114, 105, 115, 107, 46, 32>>}  \* " risk. "

\* What client.messages.create(...) and response.content[0].text can do
\* (lines 173-180): give a text, raise, hold no block (malformed), or hold
\* a block whose text is None, on which _extract_rating raises.
CreateOutcomes ==
    {[kind |-> "text", text |-> t] : t \in AnalyzeTexts}
        \cup {[kind |-> "raise", text |-> <<>>], [kind |-> "malformed", text |-> <<>>],
              [kind |-> "nontext", text |-> None]}

\* Lines 186-216: the dict analyze returns.
AnalyzeResult(ticker, data, analysis_text, rating) ==
    [ticker       |-> ticker,
     company_name |-> data["company_name"],
     rating       |-> rating,
     metrics      |-> [k \in MetricKeys |-> data[k]],
     news         |-> data["news_sources"],
     analysis     |-> analysis_text,
     generated_at |-> "now"]

\* Line 130 of analyze, line 239 of fetch_stock_data: analyze calls
\* fetch_stock_data, which calls get_stock_data; it waits for the
\* market-data provider and returns its dict, while fetch_stock_data and
\* analyze have not gone further.
AnalyzeGetStockData ==
    /\ analyze.pc = "called"
    /\ get_stock_data.pc = "idle"
    /\ \E p \in FetchProviders :
          get_stock_data' = [pc |-> "done", ticker |-> analyze.ticker, provider |-> p,
                             retval |-> GetStockData(analyze.ticker, p)]
    /\ UNCHANGED <<tickerVars, extract_rating, routeVars, fetch_stock_data>>

\* Lines 119-168, once get_stock_data has returned: fetch_stock_data calls
\* get_news_with_sources, which waits for the news provider, and returns
\* the dict, from which analyze builds the prompt.  A KeyError of
\* fetch_stock_data would leave analyze as it is, outside the try of line
\* 172.
AnalyzeFetch ==
    /\ analyze.pc = "called"
    /\ get_stock_data.pc = "done"
    /\ \E news \in AnalyzeNews :
          LET stock_data == get_stock_data.retval
              news_data == GetNewsWithSources(news)
              fails == FetchRaises(stock_data, news_data)
              data == IF fails THEN None ELSE FetchResult(stock_data, news_data)
          IN  /\ fetch_stock_data' = [pc |-> "done", ticker |-> analyze.ticker,
                                      news |-> news, retval |-> data, raised |-> fails]
              /\ analyze' =
                     IF fails
                     THEN [pc |-> "ending", ticker |-> analyze.ticker, data |-> None,
                           user_message |-> None,
                           reply |-> NoReply, outcome |-> "Exception", result |-> None]
                     ELSE [pc |-> "create", ticker |-> analyze.ticker, data |-> data,
                           user_message |-> UserMessage(analyze.ticker, data),
                           reply |-> NoReply, outcome |-> "none", result |-> None]
    /\ UNCHANGED <<tickerVars, extract_rating, analysis_service, analyze_stock,
                   get_stock_data>>

\* AnalyzeCreate returning, after a failure of the provider, a result with
\* the default rating and an empty analysis.
AnalyzeCreateSwallows(o) ==
    /\ analyze.pc = "create"
    /\ IF o.kind = "text"
       THEN /\ extract_rating' = [pc |-> "done", analysis |-> o.text,
                                  retval |-> ExtractRating(o.text)]
            /\ analyze' = [analyze EXCEPT
                   !.pc = "ending", !.reply = o, !.outcome = "result",
                   !.result = AnalyzeResult(analyze.ticker, analyze.data, o.text,
                                            ExtractRating(o.text))]
       ELSE /\ analyze' = [analyze EXCEPT
                   !.pc = "ending", !.reply = o, !.outcome = "result",
                   !.result = AnalyzeResult(analyze.ticker, analyze.data, <<>>, NEUTRAL)]
            /\ UNCHANGED extract_rating
    /\ UNCHANGED <<tickerVars, analysis_service, analyze_stock, dataVars>>

\* Lines 170-222: the provider is called with the prompt; a text is rated
\* and the result returned; any exception of the provider call, of
\* response.content[0].text or of _extract_rating is caught at line 218
\* and RuntimeError raised.
AnalyzeCreate(o) ==
    /\ analyze.pc = "create"
    /\ IF o.kind = "text"
       THEN /\ extract_rating' = [pc |-> "done", analysis |-> o.text,
                                  retval |-> ExtractRating(o.text)]
            /\ analyze' = [analyze EXCEPT
                   !.pc = "ending", !.reply = o, !.outcome = "result",
                   !.result = AnalyzeResult(analyze.ticker, analyze.data, o.text,
                                            ExtractRating(o.text))]
       ELSE /\ analyze' = [analyze EXCEPT
                   !.pc = "ending", !.reply = o, !.outcome = "RuntimeError"]
            /\ UNCHANGED extract_rating
    /\ UNCHANGED <<tickerVars, analysis_service, analyze_stock, dataVars>>

\* Lines 78-114 build the response: NewsItem takes a str for title and
\* for source, and refuses None.
ResponseValid(result) ==
    \A n \in 1..Len(result.news) :
        result.news[n].title # "None" /\ result.news[n].source # "None"

\* How lines 72-126 end once analyze has ended: the response is built from
\* the result (200), RuntimeError is caught at line 116 (500), or another
\* exception, of analyze or of the response models, at line 120 (500).
AnalyzeOutcome ==
    IF analyze.outcome = "result"
    THEN IF ResponseValid(analyze.result) THEN "result" ELSE "Exception"
    ELSE analyze.outcome

\* Lines 73-126: analyze returns or raises, and analyze_stock responds, 200
\* with the result, 500 after an exception.
AnalyzeStockRespond ==
    /\ analyze_stock.pc = "analyze"
    /\ analyze.pc = "ending"
    /\ analyze' = [analyze EXCEPT
           !.pc = IF analyze.outcome = "result" THEN "returned" ELSE "raised"]
    /\ analyze_stock' =
           [analyze_stock EXCEPT !.pc = "done",
                                 !.status_code = IF AnalyzeOutcome = "result" THEN 200 ELSE 500]
    /\ UNCHANGED <<tickerVars, extract_rating, analysis_service, dataVars>>

\* routes.py is imported, then one request is served, with every call it
\* makes.
NextRoute ==
    \/ \E ok \in BOOLEAN : ImportRoutes(ok)
    \/ \E q \in RouteQueries : AnalyzeStockEnter(q)
    \/ AnalyzeStockResolve
    \/ Resolve(1)
    \/ AnalyzeStockValidate
    \/ AnalyzeGetStockData
    \/ AnalyzeFetch
    \/ \E o \in CreateOutcomes : AnalyzeCreate(o)
    \/ AnalyzeStockRespond

SpecRoute == Init /\ [][NextRoute]_vars

(***************************************************************************)
(* Properties of resolve_ticker.                                           *)
(***************************************************************************)

Methods == {"exact", "fuzzy", "ai", "passthrough"}

Last(s) == s[Len(s)]

StepSet(c) == {steps[c][i] : i \in 1..Len(steps[c])}

\* The exact lookup of call c missed.
ExactMissed(c) == cleaned[c] \notin Aliases

\* The provider was called in call c and its outcome gave no ticker.
AiMissed(c) == aiReply[c] # NoReply /\ AiLookupTicker(aiReply[c]).val = None

\* A call that has ended returned a string from exactly one of the four
\* steps, the last one it evaluated, and raised nothing.
ReturnedString(c) ==
    /\ ~raised[c]
    /\ IsStr(retval[c])
    /\ method[c] \in Methods
    /\ steps[c] # <<>>
    /\ Last(steps[c]) = method[c]

\* How far a call is.
Rank(p) ==
    CASE p = "idle" -> 0
      [] p = "exact" -> 1
      [] p = "fuzzy" -> 2
      [] p = "ai" -> 3
      [] p = "ai_wait" -> 4
      [] p = "passthrough" -> 5
      [] p = "done" -> 6

\* Every step of a call moves it strictly forward.
Forward(c) == pc'[c] # pc[c] \/ steps'[c] # steps[c] => Rank(pc'[c]) > Rank(pc[c])

\* C1: resolve_ticker is total.  On every input and every provider outcome
\* (a text, an exception or timeout, a malformed response) the call ends:
\* each of its steps moves it strictly forward, towards its return.  It ends
\* by returning a string from exactly one of the steps exact, fuzzy, AI,
\* passthrough, and no exception reaches the caller.
C1_Total ==
    /\ [](\A c \in Calls : pc[c] = "done" => ReturnedString(c))
    /\ [][\A c \in Calls : Forward(c)]_vars

\* A call in which the provider's response was malformed still returned.
C1_Witness ==
    /\ pc[1] = "done"
    /\ aiReply[1].kind = "malformed"
    /\ ReturnedString(1)
    /\ method[1] = "passthrough"

IsPrefix(s, t) == Len(s) <= Len(t) /\ s = SubSeq(t, 1, Len(s))

\* C2: the steps are evaluated in the order exact, fuzzy, AI, passthrough
\* and the first success wins: fuzzy only after exact missed, the provider
\* only after exact and fuzzy missed, passthrough only after every earlier
\* step missed (the AI step being skipped or having missed).
C2_StepOrder ==
    \A c \in Calls :
        /\ \/ IsPrefix(steps[c], <<"exact", "fuzzy", "ai", "passthrough">>)
           \/ IsPrefix(steps[c], <<"exact", "fuzzy", "passthrough">>)
        /\ "fuzzy" \in StepSet(c) => ExactMissed(c)
        /\ "ai" \in StepSet(c) => ExactMissed(c) /\ matches[c] = <<>>
        /\ "passthrough" \in StepSet(c) =>
               /\ ExactMissed(c)
               /\ matches[c] = <<>>
               /\ aiCalls[c] = 0 \/ AiMissed(c)
        /\ pc[c] = "done" /\ ~raised[c] => Last(steps[c]) = method[c]
        /\ pc[c] = "ai_wait" => Last(steps[c]) = "ai"

\* A call that went through all four steps.
C2_Witness ==
    /\ pc[1] = "done"
    /\ steps[1] = <<"exact", "fuzzy", "ai", "passthrough">>

\* x and y are the same character up to letter case.
SameLetter(x, y) ==
    \/ x = y
    \/ IsCased(x) /\ IsCased(y) /\ (x - y = 32 \/ y - x = 32)

\* s is a up to letter case and surrounding whitespace.
SameUpToCaseAndSpace(s, a) ==
    \E l \in 0..Len(s) :
        LET r == Len(s) - l - Len(a)
        IN  /\ r >= 0
            /\ \A i \in 1..l : IsSpace(s[i])
            /\ \A i \in 1..r : IsSpace(s[Len(s) - i + 1])
            /\ \A i \in 1..Len(a) : SameLetter(s[l + i], a[i])

\* C3: an input that is an alias of the dictionary up to letter case and
\* surrounding whitespace is resolved by the exact step to that alias's
\* ticker, and the provider is never called.
C3_ExactAlias ==
    \A c \in Calls :
        \A i \in 1..Len(COMPANY_TO_TICKER_LITERAL) :
            (pc[c] # "idle"
             /\ SameUpToCaseAndSpace(input_str[c], COMPANY_TO_TICKER_LITERAL[i][1])) =>
                /\ pc[c] \in {"exact", "done"}
                /\ aiCalls[c] = 0
                /\ pc[c] = "done" =>
                       /\ method[c] = "exact"
                       /\ retval[c] = COMPANY_TO_TICKER_LITERAL[i][2]

\* " GOOGLE " resolved to "GOOGL" by the exact step.
C3_Witness ==
    /\ pc[1] = "done"
    /\ input_str[1] = <<32, 71, 79, 79, 71, 76, 69, 32>>  \* " GOOGLE "
    /\ method[1] = "exact"
    /\ retval[1] = T_GOOGL
    /\ aiCalls[1] = 0

\* score >= 0.8, for a score <<numerator, denominator>>.
AtLeast08(score) == 10 * score[1] >= 8 * score[2]

\* s1 <= s2
ScoreLE(s1, s2) == s1[1] * s2[2] <= s2[1] * s1[2]

\* Call c has just evaluated the fuzzy match.
JustAfterFuzzy(c) ==
    steps[c] # <<>> /\ Last(steps[c]) = "fuzzy" /\ pc[c] \in {"ai", "done"}

\* The similarity of every alias, in dictionary order, to the word w.
AliasScores(w) ==
    [i \in 1..Len(COMPANY_TO_TICKER_LITERAL) |-> Ratio(COMPANY_TO_TICKER_LITERAL[i][1], w)]

\* With sc the scores of the aliases: call c returned, at the fuzzy step, the
\* ticker of an alias of the highest score when that score is at least 0.8,
\* and went on to the AI step when it is not.
BestReturned(c, sc) ==
    IF \E i \in DOMAIN sc : AtLeast08(sc[i])
    THEN /\ pc[c] = "done"
         /\ method[c] = "fuzzy"
         /\ \E i \in DOMAIN sc :
                /\ AtLeast08(sc[i])
                /\ \A j \in DOMAIN sc : ScoreLE(sc[j], sc[i])
                /\ retval[c] = COMPANY_TO_TICKER_LITERAL[i][2]
    ELSE /\ pc[c] = "ai"
         /\ method[c] = "none"

\* C4: when the normalized input is no alias, the fuzzy step returns the
\* ticker of an alias whose similarity to the normalized input is the
\* highest of all aliases, provided that score is at least 0.8 (0.8 itself
\* is accepted); when the best score is below 0.8 the call goes on to the
\* next step.  "gogle" gives "GOOGL", "zotis" and "zoetiss" give "ZTS",
\* "microsft" gives "MSFT" and "teslla" gives "TSLA", at the fuzzy step.
C4_FuzzyBest ==
    \A c \in Calls :
        /\ JustAfterFuzzy(c) => BestReturned(c, AliasScores(cleaned[c]))
        /\ pc[c] = "done" /\ cleaned[c] = W_gogle =>
               method[c] = "fuzzy" /\ retval[c] = T_GOOGL
        /\ pc[c] = "done" /\ cleaned[c] \in {W_zotis, W_zoetiss} =>
               method[c] = "fuzzy" /\ retval[c] = T_ZTS
        /\ pc[c] = "done" /\ cleaned[c] = W_microsft =>
               method[c] = "fuzzy" /\ retval[c] = T_MSFT
        /\ pc[c] = "done" /\ cleaned[c] = W_teslla =>
               method[c] = "fuzzy" /\ retval[c] = T_TSLA

\* "geM" scores exactly 0.8 against "gm" and is resolved by the fuzzy step.
C4_Witness ==
    /\ pc[1] = "done"
    /\ cleaned[1] = W_gem
    /\ method[1] = "fuzzy"
    /\ matches[1] # <<>>
    /\ Ratio(matches[1][1], cleaned[1]) = <<4, 5>>
    /\ retval[1] = T_GM

\* C5: the provider is called only when the original input is longer than 2
\* characters.  A call on an input of length 0, 1 or 2 never calls it, and
\* when its exact and fuzzy steps miss it ends in the passthrough.
C5_ShortInputsSkipAi ==
    \A c \in Calls :
        (pc[c] # "idle" /\ Len(input_str[c]) <= 2) =>
            /\ aiCalls[c] = 0
            /\ pc[c] # "ai_wait"
            /\ "ai" \notin StepSet(c)
            /\ aiReply[c] = NoReply
            /\ pc[c] = "done" /\ method[c] \notin {"exact", "fuzzy"} =>
                   /\ method[c] = "passthrough"
                   /\ steps[c] = <<"exact", "fuzzy", "passthrough">>

\* "ZZ" went through exact and fuzzy to the passthrough with no provider call.
C5_Witness ==
    /\ pc[1] = "done"
    /\ input_str[1] = W_ZZ
    /\ steps[1] = <<"exact", "fuzzy", "passthrough">>
    /\ aiCalls[1] = 0
    /\ retval[1] = W_ZZ

\* The provider's text, trimmed and upper-cased.
Answer(c) == Upper(Strip(aiReply[c].text))

\* Non-empty, not "UNKNOWN", at most 5 characters.
Acceptable(t) == t # <<>> /\ t # UNKNOWN /\ Len(t) <= 5

\* The input of call c upper-cased and trimmed, as the code computes it.
PassedThrough(c) == Strip(Upper(input_str[c]))

\* C6: the provider's answer is returned only if, trimmed and upper-cased,
\* it is non-empty, not "UNKNOWN" and at most 5 characters long, and then
\* that trimmed, upper-cased text is the result; after any other answer the
\* call ends in the passthrough.
C6_AiAnswerValidated ==
    \A c \in Calls :
        /\ method[c] = "ai" =>
               /\ aiReply[c].kind = "text"
               /\ Acceptable(Answer(c))
               /\ retval[c] = Answer(c)
        /\ (aiReply[c].kind = "text" /\ ~Acceptable(Answer(c))) =>
               /\ pc[c] \in {"passthrough", "done"}
               /\ pc[c] = "done" =>
                      method[c] = "passthrough" /\ retval[c] = PassedThrough(c)

\* "SomeObscureStartupXYZ" with the provider answering " xyzq\n" gave "XYZQ".
C6_Witness ==
    /\ pc[1] = "done"
    /\ input_str[1] = W_Obscure
    /\ aiReply[1] = [kind |-> "text", text |-> <<32, 120, 121, 122, 113, 10>>]  \* " xyzq\n"
    /\ method[1] = "ai"
    /\ retval[1] = T_XYZQ

\* C7: a provider failure (exception, timeout, malformed response) is a
\* miss: the call then returns the passthrough value of its input, and the
\* provider is called at most once per call.
C7_AiFailureIsMiss ==
    \A c \in Calls :
        /\ aiCalls[c] <= 1
        /\ aiReply[c].kind \in {"raise", "malformed"} =>
               /\ ~raised[c]
               /\ pc[c] \in {"passthrough", "done"}
               /\ pc[c] = "done" =>
                      method[c] = "passthrough" /\ retval[c] = PassedThrough(c)

\* "acme corp" with the provider call raising: one call, then "ACME CORP".
C7_Witness ==
    /\ pc[1] = "done"
    /\ input_str[1] = W_acme
    /\ aiReply[1].kind = "raise"
    /\ aiCalls[1] = 1
    /\ method[1] = "passthrough"
    /\ retval[1] = <<65, 67, 77, 69, 32, 67, 79, 82, 80>>  \* "ACME CORP"

\* r is s upper-cased and trimmed.
UpperTrimmed(s, r) ==
    \E l \in 0..Len(s) :
        /\ l + Len(r) <= Len(s)
        /\ \A i \in 1..l : IsSpace(s[i])
        /\ \A i \in (l + Len(r) + 1)..Len(s) : IsSpace(s[i])
        /\ Len(r) > 0 => ~IsSpace(s[l + 1]) /\ ~IsSpace(s[l + Len(r)])
        /\ \A i \in 1..Len(r) :
               r[i] = IF s[l + i] \in 97..122 THEN s[l + i] - 32 ELSE s[l + i]

\* t is upper-case and trimmed.
IsUpperTrimmed(t) ==
    /\ \A i \in 1..Len(t) : t[i] \notin 97..122
    /\ Len(t) > 0 => ~IsSpace(t[1]) /\ ~IsSpace(t[Len(t)])

\* C8: when exact, fuzzy and AI all miss, the call returns its input
\* upper-cased and trimmed; so an upper-case, trimmed input that matches no
\* alias exactly or fuzzily, with the provider answering "UNKNOWN" when it
\* is asked, is returned as it is.
C8_Passthrough ==
    \A c \in Calls :
        /\ method[c] = "passthrough" => UpperTrimmed(input_str[c], retval[c])
        /\ (/\ pc[c] = "done"
            /\ IsUpperTrimmed(input_str[c])
            /\ method[c] \notin {"exact", "fuzzy"}
            /\ aiReply[c] \in {NoReply, [kind |-> "text", text |-> UNKNOWN]}) =>
               method[c] = "passthrough" /\ retval[c] = input_str[c]

\* "AAPL" with the provider answering "UNKNOWN" is returned as "AAPL".
C8_Witness ==
    /\ pc[1] = "done"
    /\ input_str[1] = W_AAPL
    /\ aiReply[1] = [kind |-> "text", text |-> UNKNOWN]
    /\ method[1] = "passthrough"
    /\ retval[1] = W_AAPL

\* C9: every input whose normalized form is empty (the empty input and every
\* whitespace-only input) ends in the passthrough and returns the empty
\* string, whatever the provider answers.
C9_EmptyNormalized ==
    \A c \in Calls :
        (pc[c] = "done" /\ \A i \in 1..Len(input_str[c]) : IsSpace(input_str[c][i])) =>
            method[c] = "passthrough" /\ retval[c] = <<>>

\* C10: resolution is deterministic.  With the dictionary fixed and the
\* provider a function of its argument, two calls on the same input return
\* the same ticker from the same step.
C10_Deterministic ==
    (pc[1] = "done" /\ pc[2] = "done" /\ input_str[1] = input_str[2]) =>
        /\ retval[1] = retval[2]
        /\ method[1] = method[2]
        /\ raised[1] = raised[2]

\* Two calls on "acme corp" both returned the provider's "XYZQ".
C10_Witness ==
    /\ pc[1] = "done"
    /\ pc[2] = "done"
    /\ input_str[1] = W_acme
    /\ input_str[2] = W_acme
    /\ method[1] = "ai"
    /\ method[2] = "ai"
    /\ retval[2] = T_XYZQ

\* The provider, where call c asked it, answered "UNKNOWN".
AnsweredUnknown(c) ==
    aiReply[c] = NoReply \/ aiReply[c] = [kind |-> "text", text |-> UNKNOWN]

\* C11: a call of resolve_ticker on a canonical ticker (a value of
\* COMPANY_TO_TICKER), with the provider answering "UNKNOWN", returns that
\* ticker unchanged.
C11_TickerUnchanged ==
    \A c \in Calls :
        (pc[c] = "done" /\ input_str[c] \in Tickers /\ AnsweredUnknown(c)) =>
            ~raised[c] /\ retval[c] = input_str[c]

\* "AAPL" came back from the passthrough after the provider said "UNKNOWN".
C11_Witness ==
    /\ pc[1] = "done"
    /\ input_str[1] = W_AAPL
    /\ W_AAPL \in Tickers
    /\ aiReply[1] = [kind |-> "text", text |-> UNKNOWN]
    /\ method[1] = "passthrough"
    /\ retval[1] = W_AAPL

(***************************************************************************)
(* Properties of get_company_name and of the dictionary.                   *)
(***************************************************************************)

\* The reverse lookup of canonical ticker t has returned, and call c has
\* resolved the name it returned.
ResolvedNameOf(c, t) ==
    /\ get_company_name.pc = "done"
    /\ get_company_name.ticker = t
    /\ pc[c] = "done"
    /\ input_str[c] = get_company_name.retval

\* C12: resolve_ticker(get_company_name(t)) = t for every canonical ticker
\* t, whatever the provider would answer.
C12_DisplayFormRoundTrip ==
    \A c \in Calls : \A t \in Tickers :
        ResolvedNameOf(c, t) => ~raised[c] /\ retval[c] = t

\* get_company_name("GOOGL") gave "Google", which resolved to "GOOGL".
C12_Witness ==
    /\ ResolvedNameOf(1, T_GOOGL)
    /\ input_str[1] = <<71, 111, 111, 103, 108, 101>>
    /\ method[1] = "exact"
    /\ retval[1] = T_GOOGL

\* Every character of s is one lower() leaves alone.
IsLowerCase(s) == \A i \in 1..Len(s) : LowerChar(s[i]) = s[i]

\* s neither starts nor ends with whitespace.
IsTrimmed(s) == s = <<>> \/ (~IsSpace(s[1]) /\ ~IsSpace(s[Len(s)]))

\* C13: in COMPANY_TO_TICKER every key is a lower-case string without
\* leading or trailing whitespace, no key occurs twice, and every value is
\* a non-empty string.
C13_DictInvariant ==
    /\ \A i \in 1..Len(COMPANY_TO_TICKER) :
           /\ IsStr(COMPANY_TO_TICKER[i][1])
           /\ IsLowerCase(COMPANY_TO_TICKER[i][1])
           /\ IsTrimmed(COMPANY_TO_TICKER[i][1])
           /\ IsStr(COMPANY_TO_TICKER[i][2])
           /\ COMPANY_TO_TICKER[i][2] # <<>>
    /\ Cardinality({COMPANY_TO_TICKER[i][1] : i \in 1..Len(COMPANY_TO_TICKER)})
           = Len(COMPANY_TO_TICKER)

\* The dict built from the 156 items of the display holds "netflix", written
\* twice, once, and a call of resolve_ticker has read it.
C13_Witness ==
    /\ Len(COMPANY_TO_TICKER_LITERAL) = Len(COMPANY_TO_TICKER) + 1
    /\ Cardinality({i \in 1..Len(COMPANY_TO_TICKER) :
                       COMPANY_TO_TICKER[i][1] = <<110, 101, 116, 102, 108, 105, 120>>}) = 1
    /\ pc[1] = "done"
    /\ method[1] = "fuzzy"

\* C14: no step of resolve_ticker, _ai_lookup_ticker or get_company_name
\* changes COMPANY_TO_TICKER.
C14_DictNeverMutated == [][COMPANY_TO_TICKER' = COMPANY_TO_TICKER]_vars

\* A call of resolve_ticker that asked the provider and a call of
\* get_company_name have both returned, and the dict is as it was built.
C14_Witness ==
    /\ pc[1] = "done"
    /\ aiCalls[1] = 1
    /\ method[1] = "ai"
    /\ get_company_name.pc = "done"
    /\ COMPANY_TO_TICKER = COMPANY_TO_TICKER_BUILT

\* C24: get_company_name(t) returns the title-cased form of the first
\* alias, in dictionary order, whose ticker is t upper-cased ("Google" for
\* "googl", not "Alphabet"), and None when no alias maps to it.
C24_FirstMatchWins ==
    get_company_name.pc = "done" =>
        LET t == get_company_name.ticker
            d == COMPANY_TO_TICKER
            maps(i) == d[i][2] = Upper(t)
        IN  /\ (\A i \in 1..Len(d) : ~maps(i)) => get_company_name.retval = None
            /\ \A i \in 1..Len(d) :
                   (maps(i) /\ \A j \in 1..(i - 1) : ~maps(j))
                       => get_company_name.retval = Title(d[i][1])
            /\ t = <<103, 111, 111, 103, 108>> => get_company_name.retval = <<71, 111, 111, 103, 108, 101>>

\* get_company_name("googl") returned "Google"; "alphabet" maps to "GOOGL"
\* too, later in the dictionary.
C24_Witness ==
    /\ get_company_name.pc = "done"
    /\ get_company_name.ticker = <<103, 111, 111, 103, 108>>
    /\ get_company_name.retval = <<71, 111, 111, 103, 108, 101>>
    /\ \E i, j \in 1..Len(COMPANY_TO_TICKER) :
          /\ i < j
          /\ COMPANY_TO_TICKER[i] = <<<<103, 111, 111, 103, 108, 101>>, T_GOOGL>>
          /\ COMPANY_TO_TICKER[j] = <<<<97, 108, 112, 104, 97, 98, 101, 116>>, T_GOOGL>>

(***************************************************************************)
(* Properties of concurrent calls.                                         *)
(***************************************************************************)

\* The runs of resolve_ticker alone: for each input of ConcInputs and each
\* provider outcome, how the call ends.
AloneRuns ==
    {[input_str |-> s, aiReply |-> o,
      result |-> ResolveTicker(COMPANY_TO_TICKER_BUILT, s, o)] :
        s \in ConcInputs, o \in AiOutcomes \cup {NoReply}}

\* Call c ended as resolve_ticker does on its input when run alone with the
\* provider outcome c got.
AsAlone(c) ==
    /\ ~raised[c]
    /\ \E r \in AloneRuns :
           /\ r.input_str = input_str[c]
           /\ r.aiReply = aiReply[c]
           /\ r.result = [retval |-> retval[c], method |-> method[c],
                          aiCalls |-> aiCalls[c]]

\* C15: under every interleaving of the steps of two concurrent calls, also
\* with a provider call of one in flight, each call returns what it returns
\* when run alone.
C15_Independent == \A c \in Calls : pc[c] = "done" => AsAlone(c)

\* Call 2 has resolved "gogle" to "GOOGL" while the provider call of call 1,
\* on "acme corp", is still in flight.
C15_Witness ==
    /\ pc[1] = "ai_wait"
    /\ input_str[1] = W_acme
    /\ pc[2] = "done"
    /\ input_str[2] = W_gogle
    /\ method[2] = "fuzzy"
    /\ retval[2] = T_GOOGL

(***************************************************************************)
(* Properties of _extract_rating.                                          *)
(***************************************************************************)

\* The lower-cased text holds an explicit bearish, or neutral, marker.
HasBearishMarker(t) ==
    Contains(Lower(t), VerdictBearish) \/ Contains(Lower(t), BoldBearish)

HasNeutralMarker(t) ==
    Contains(Lower(t), VerdictNeutral) \/ Contains(Lower(t), BoldNeutral)

\* C16: a text with an explicit bearish marker is rated BEARISH, also when
\* it holds an explicit neutral marker; otherwise a text with an explicit
\* neutral marker is rated NEUTRAL, whatever the counts of the two words.
C16_MarkersFirst ==
    extract_rating.pc = "done" =>
        /\ HasBearishMarker(extract_rating.analysis) => extract_rating.retval = BEARISH
        /\ (~HasBearishMarker(extract_rating.analysis)
                /\ HasNeutralMarker(extract_rating.analysis)) =>
               extract_rating.retval = NEUTRAL

\* "Verdict: Neutral**Bearish**" holds both markers and is rated BEARISH.
C16_Witness ==
    /\ extract_rating.pc = "done"
    /\ extract_rating.analysis = <<86, 101, 114, 100, 105, 99, 116, 58, 32, 78, 101, 117, 116, 114, 97, 108, 42, 42, 66, 101, 97, 114, 105, 115, 104, 42, 42>>
    /\ HasNeutralMarker(extract_rating.analysis)
    /\ HasBearishMarker(extract_rating.analysis)
    /\ extract_rating.retval = BEARISH

\* C17: without an explicit marker the rating is the label whose word
\* occurs more often in the lower-cased text, and NEUTRAL when neither word
\* occurs.
C17_CountFallback ==
    (/\ extract_rating.pc = "done"
     /\ ~HasBearishMarker(extract_rating.analysis)
     /\ ~HasNeutralMarker(extract_rating.analysis)) =>
        LET b == Count(Lower(extract_rating.analysis), WordBearish)
            n == Count(Lower(extract_rating.analysis), WordNeutral)
        IN  /\ b > n => extract_rating.retval = BEARISH
            /\ n > b => extract_rating.retval = NEUTRAL
            /\ (b = 0 /\ n = 0) => extract_rating.retval = NEUTRAL

\* "BearishneutralBearish": no marker, two "bearish" to one "neutral",
\* rated BEARISH.
C17_Witness ==
    /\ extract_rating.pc = "done"
    /\ extract_rating.analysis = <<66, 101, 97, 114, 105, 115, 104, 110, 101, 117, 116, 114, 97, 108, 66, 101, 97, 114, 105, 115, 104>>
    /\ ~HasBearishMarker(extract_rating.analysis)
    /\ ~HasNeutralMarker(extract_rating.analysis)
    /\ extract_rating.retval = BEARISH

\* C22: _extract_rating always returns one of the two labels, "BEARISH" or
\* "NEUTRAL", and returns "BEARISH" only when the lower-cased text contains
\* "bearish".
C22_TwoLabels ==
    extract_rating.pc = "done" =>
        /\ extract_rating.retval \in {BEARISH, NEUTRAL}
        /\ extract_rating.retval = BEARISH =>
               Contains(Lower(extract_rating.analysis), WordBearish)

\* "Bearish risk. " was rated BEARISH, and " risk. ", which holds neither
\* word, would be NEUTRAL.
C22_Witness ==
    /\ extract_rating.pc = "done"
    /\ extract_rating.analysis = <<66, 101, 97, 114, 105, 115, 104, 32, 114, 105, 115, 107, 46, 32>>
    /\ extract_rating.retval = BEARISH
    /\ ExtractRating(<<32, 114, 105, 115, 107, 46, 32>>) = NEUTRAL

(***************************************************************************)
(* Properties of analyze_stock.                                            *)
(***************************************************************************)

\* resolve_ticker returned, to analyze_stock, an empty string or one of
\* more than 10 characters.
ResolverGaveBadTicker ==
    /\ analyze_stock.pc \in {"analyze", "done"}
    /\ pc[1] = "done"
    /\ ~raised[1]
    /\ (retval[1] = <<>> \/ Len(retval[1]) > 10)

\* C18: when resolve_ticker returns an empty string or one longer than 10
\* characters, analyze_stock answers 400 and AnalysisService.analyze is not
\* called; analyze is never called with such a ticker.
C18_BoundaryRejects ==
    /\ ResolverGaveBadTicker => analyze_stock.status_code = 400 /\ analyze.pc = "idle"
    /\ analyze.pc # "idle" =>
           /\ analyze.ticker = retval[1]
           /\ analyze.ticker # <<>>
           /\ Len(analyze.ticker) <= 10

\* "SomeObscureStartupXYZ", which the provider did not know, came back
\* upper-cased from the passthrough, 21 characters long, and was answered 400.
C18_Witness ==
    /\ analyze_stock.pc = "done"
    /\ analyze_stock.query = W_Obscure
    /\ method[1] = "passthrough"
    /\ Len(retval[1]) = 21
    /\ analyze_stock.status_code = 400
    /\ analyze.pc = "idle"


\* The field of the provider each field of the record is read or computed
\* from (company_name from shortName, line 64; and so on).
ProviderFieldOf ==
    [company_name     |-> "shortName",
     current_price    |-> "last_price",
     price_change     |-> "previousClose",
     price_change_pct |-> "previousClose",
     prev_close       |-> "previousClose",
     week_52_high     |-> "fiftyTwoWeekHigh",
     week_52_low      |-> "fiftyTwoWeekLow",
     pct_from_high    |-> "fiftyTwoWeekHigh",
     market_cap       |-> "marketCap",
     pe_ratio         |-> "trailingPE",
     forward_pe       |-> "forwardPE",
     volume           |-> "last_volume",
     volume_vs_avg    |-> "averageVolume",
     beta             |-> "beta",
     short_percent    |-> "shortPercentOfFloat",
     debt_to_equity   |-> "debtToEquity",
     profit_margin    |-> "profitMargins",
     revenue_growth   |-> "revenueGrowth",
     earnings_growth  |-> "earningsGrowth",
     current_ratio    |-> "currentRatio",
     target_price     |-> "targetMeanPrice",
     target_upside    |-> "targetMeanPrice",
     recommendation   |-> "recommendationKey"]

\* C19: For each field the market-data provider does not supply,
\* get_stock_data sets that field of its result to "N/A" and still returns
\* a complete record; a missing field never fails the whole request.
\* The code does not do this: without a market cap the record says "$0",
\* without a previous close it repeats the current price, without a short
\* name it gives the ticker, without an average volume it says 100, and
\* without a last price the whole record is the fallback, whose price is
\* "Unknown".
C19_MissingIsNA ==
    get_stock_data.pc = "done" =>
        /\ DOMAIN get_stock_data.retval = StockFields
        /\ \A f \in StockFields :
              ProviderFieldOf[f] \notin get_stock_data.provider.supplied
                  => get_stock_data.retval[f] = NA

\* The 15 fields whose default is "N/A" do hold it whenever the provider
\* does not supply them, and the record is always complete.
NADefaulted ==
    {"week_52_high", "week_52_low", "pct_from_high", "pe_ratio", "forward_pe", "beta",
     "short_percent", "debt_to_equity", "profit_margin", "revenue_growth",
     "earnings_growth", "current_ratio", "target_price", "target_upside",
     "recommendation"}

DefaultedFieldsAreNA ==
    get_stock_data.pc = "done" =>
        /\ DOMAIN get_stock_data.retval = StockFields
        /\ \A f \in NADefaulted :
              ProviderFieldOf[f] \notin get_stock_data.provider.supplied
                  => get_stock_data.retval[f] = NA


(***************************************************************************)
(* Properties of the insertion order.                                      *)
(***************************************************************************)

\* resolve_ticker on every input and provider outcome of SpecOrder, with the
\* dictionary in the order of the display.
DisplayOrderRuns ==
    {[input_str |-> s, aiReply |-> o,
      result |-> ResolveTicker(COMPANY_TO_TICKER_BUILT, s, o)] :
        s \in OrderInputs, o \in AiOutcomes \cup {NoReply}}

\* Call c returned what the dictionary in the order of the display returns.
AsInDisplayOrder(c) ==
    \E run \in DisplayOrderRuns :
        /\ run.input_str = input_str[c]
        /\ run.aiReply = aiReply[c]
        /\ run.result.retval = retval[c]
        /\ run.result.method = method[c]

\* Several aliases share the best score of the fuzzy step of call c.
TiedAtTheTop(c) ==
    LET result == CloseResult(cleaned[c], DictKeys(COMPANY_TO_TICKER))
    IN  \E i, j \in 1..Len(result) :
            /\ i # j
            /\ result[i][1][1] * result[j][1][2] = result[j][1][1] * result[i][1][2]
            /\ \A k \in 1..Len(result) :
                  result[k][1][1] * result[i][1][2] <= result[i][1][1] * result[k][1][2]

\* C20: The fuzzy step breaks ties independently of the dictionary's order:
\* whatever the insertion order of the same key/value pairs, a call returns
\* the ticker, from the step, that it returns with the pairs in the order of
\* the display; and the alias chosen among those sharing the best score is
\* the same, the greatest of them as a string.
C20_OrderIndependent ==
    \A c \in Calls : pc[c] = "done" =>
        /\ AsInDisplayOrder(c)
        /\ method[c] = "fuzzy" =>
              matches[c] = GetCloseMatches(cleaned[c], DictKeys(COMPANY_TO_TICKER_BUILT))

\* A call on a dictionary in another order than the display's returned from
\* the fuzzy step for an input with several aliases at the best score.
C20_Witness ==
    /\ COMPANY_TO_TICKER # COMPANY_TO_TICKER_BUILT
    /\ pc[1] = "done"
    /\ method[1] = "fuzzy"
    /\ TiedAtTheTop(1)


(***************************************************************************)
(* Properties of fetch_stock_data.                                         *)
(***************************************************************************)

\* C21: fetch_stock_data never raises, and whether the market-data and the
\* news provider succeed or fail, its result has the same keys, among them
\* every key that AnalysisService.analyze reads for the prompt and for the
\* metrics of the response.
C21_StableFieldSet ==
    fetch_stock_data.pc = "done" =>
        /\ ~fetch_stock_data.raised
        /\ DOMAIN fetch_stock_data.retval = FetchFields
        /\ AnalyzeReads \subseteq DOMAIN fetch_stock_data.retval
        /\ \A n \in 1..Len(fetch_stock_data.retval.news_sources) :
              {"title", "source"} \subseteq DOMAIN fetch_stock_data.retval.news_sources[n]

\* Both providers raised, and fetch_stock_data returned the fallback record
\* and the one "No recent news found" article.
C21_Witness ==
    /\ fetch_stock_data.pc = "done"
    /\ get_stock_data.provider.fails
    /\ fetch_stock_data.news.fails
    /\ fetch_stock_data.retval.price = "Unknown"
    /\ fetch_stock_data.retval.news_sources = <<NoNewsFound>>


(***************************************************************************)
(* Properties of the whole request.                                        *)
(***************************************************************************)

\* The provider call of analyze, or the extraction of the rating, raised.
GenerationFailed ==
    /\ analyze.pc \in {"ending", "raised", "returned"}
    /\ analyze.reply.kind \in {"raise", "malformed", "nontext"}

\* C23: a failure of the text generation ends the request in an error and
\* never in a partial result: when the provider call or the extraction of
\* the rating raises, analyze raises RuntimeError, without a result, and
\* analyze_stock answers 500; a request ends with one status, 200, 400, 500
\* or 503, and 200 only with the complete result of a text the provider
\* gave; without the analysis service the answer is 503 and the resolver
\* is not called.
C23_FailureIsError ==
    /\ GenerationFailed =>
           /\ analyze.outcome = "RuntimeError"
           /\ analyze.result = None
           /\ analyze_stock.pc = "done" =>
                  analyze_stock.status_code = 500 /\ analyze.pc = "raised"
    /\ IF analyze_stock.pc = "done"
       THEN analyze_stock.status_code \in {200, 400, 500, 503}
       ELSE analyze_stock.status_code = 0
    /\ (analyze_stock.pc = "done" /\ analyze_stock.status_code = 200) =>
           /\ analyze.pc = "returned"
           /\ analyze.reply.kind = "text"
           /\ analyze.result.analysis = analyze.reply.text
           /\ analyze.result.rating \in {BEARISH, NEUTRAL}
           /\ DOMAIN analyze.result.metrics = MetricKeys
    /\ (analysis_service = "None" /\ analyze_stock.pc # "idle") =>
           /\ analyze_stock.pc = "done"
           /\ analyze_stock.status_code = 503
           /\ pc[1] = "idle"
           /\ steps[1] = <<>>
           /\ analyze.pc = "idle"
    /\ (analyze_stock.pc = "done" /\ analyze_stock.status_code = 503) =>
           analysis_service = "None"

\* The data were fetched, the provider gave a block whose text is None,
\* _extract_rating raised on it, analyze raised RuntimeError and the
\* request was answered 500.
C23_Witness ==
    /\ analyze_stock.pc = "done"
    /\ analyze_stock.status_code = 500
    /\ analyze.pc = "raised"
    /\ analyze.reply.kind = "nontext"
    /\ fetch_stock_data.pc = "done"
    /\ DOMAIN analyze.data = FetchFields

=============================================================================
